---- MODULE Spec2Model ----
(***************************************************************************)
(* A model of the agent-framework activity tailer (openclaw_tailer.py) and *)
(* of its SQLite event store (db/events.py, db/prune.py).                  *)
(*                                                                         *)
(* Texts are sequences of one-character strings, so that the string        *)
(* functions of the source (strip, lower, split, slicing, substring tests) *)
(* are computed as the source computes them.  The two non-ASCII characters *)
(* the source writes are the elements Ellipsis and EmDash, and the backquote *)
(* is the element Backtick.                                                *)
(***************************************************************************)
EXTENDS Integers, Sequences, FiniteSets, TLC

(***************************************************************************)
(* Python string primitives                                                *)
(***************************************************************************)
Ellipsis == "ELLIPSIS"
EmDash == "EMDASH"
Backtick == "BACKTICK"
NL == "\n"

UpperChars == <<"A","B","C","D","E","F","G","H","I","J","K","L","M","N","O","P","Q","R","S","T","U","V","W","X","Y","Z">>
LowerChars == <<"a","b","c","d","e","f","g","h","i","j","k","l","m","n","o","p","q","r","s","t","u","v","w","x","y","z">>
DigitChars == {"0","1","2","3","4","5","6","7","8","9"}

IsSpace(c) == c \in {" ", "\n", "\t", "\r"}

LowerChar(c) ==
  IF \E i \in 1..26 : UpperChars[i] = c
  THEN LowerChars[CHOOSE i \in 1..26 : UpperChars[i] = c]
  ELSE c

IsAlnum(c) ==
  \/ c \in DigitChars
  \/ \E i \in 1..26 : UpperChars[i] = c \/ LowerChars[i] = c

\* str.lower()
Lower(s) == SubSeq([i \in 1..Len(s) |-> LowerChar(s[i])], 1, Len(s))

\* s[a:b] with 0-based Python bounds 0 <= a, clipped to the length
Slice(s, a, b) == SubSeq(s, a + 1, IF b < Len(s) THEN b ELSE Len(s))

\* s[:n]
Take(s, n) == Slice(s, 0, n)

\* s[n:]
Drop(s, n) == SubSeq(s, n + 1, Len(s))

\* str.lstrip()
LStrip(s) ==
  IF \A i \in 1..Len(s) : IsSpace(s[i]) THEN <<>>
  ELSE Drop(s, (CHOOSE i \in 1..Len(s) : ~IsSpace(s[i]) /\ \A j \in 1..(i-1) : IsSpace(s[j])) - 1)

\* str.rstrip()
RStrip(s) ==
  IF \A i \in 1..Len(s) : IsSpace(s[i]) THEN <<>>
  ELSE Take(s, CHOOSE i \in 1..Len(s) : ~IsSpace(s[i]) /\ \A j \in (i+1)..Len(s) : IsSpace(s[j]))

\* str.strip()
Strip(s) == LStrip(RStrip(s))

\* str.lstrip(c) and str.strip(c) for one character c
LStripChar(s, c) ==
  IF \A i \in 1..Len(s) : s[i] = c THEN <<>>
  ELSE Drop(s, (CHOOSE i \in 1..Len(s) : s[i] # c /\ \A j \in 1..(i-1) : s[j] = c) - 1)

RStripChar(s, c) ==
  IF \A i \in 1..Len(s) : s[i] = c THEN <<>>
  ELSE Take(s, CHOOSE i \in 1..Len(s) : s[i] # c /\ \A j \in (i+1)..Len(s) : s[j] = c)

StripChar(s, c) == LStripChar(RStripChar(s, c), c)

\* s.startswith(p)
StartsWith(s, p) == Len(p) <= Len(s) /\ SubSeq(s, 1, Len(p)) = p

\* s.find(sub) + 1: the 1-based place of the first occurrence, 0 when there is none
Find(s, sub) ==
  LET hits == {i \in 1..(Len(s) - Len(sub) + 1) :
                 s[i] = sub[1] /\ SubSeq(s, i, i + Len(sub) - 1) = sub}
  IN IF hits = {} THEN 0 ELSE CHOOSE i \in hits : \A j \in hits : i <= j

\* sub in s
Contains(s, sub) == Find(s, sub) # 0

\* s.count(c) for one character c
CountChar(s, c) == Cardinality({i \in 1..Len(s) : s[i] = c})

\* s.replace(a, b) for single characters
ReplaceChar(s, a, b) == SubSeq([i \in 1..Len(s) |-> IF s[i] = a THEN b ELSE s[i]], 1, Len(s))

\* sep.join(parts)
RECURSIVE Join(_, _)
Join(parts, sep) ==
  IF parts = <<>> THEN <<>>
  ELSE IF Len(parts) = 1 THEN parts[1]
  ELSE parts[1] \o sep \o Join(Tail(parts), sep)

\* s.splitlines()
RECURSIVE SplitLines(_)
SplitLines(s) ==
  IF s = <<>> THEN <<>>
  ELSE LET i == Find(s, <<NL>>)
       IN IF i = 0 THEN <<s>>
          ELSE <<SubSeq(s, 1, i - 1)>> \o SplitLines(Drop(s, i))

\* s.split(): the maximal runs of non-whitespace
RECURSIVE SplitWords(_)
SplitWords(s) ==
  LET t == LStrip(s)
  IN IF t = <<>> THEN <<>>
     ELSE LET ws == {i \in 1..Len(t) : IsSpace(t[i])}
              e == IF ws = {} THEN Len(t) + 1 ELSE CHOOSE i \in ws : \A j \in ws : i <= j
          IN <<SubSeq(t, 1, e - 1)>> \o SplitWords(Drop(t, e - 1))

\* ' '.join(s.split())
Flat(s) == Join(SplitWords(s), <<" ">>)

\* s.split(sep, 1)[1]: what follows the first occurrence of sep (sep occurs in s)
AfterFirst(s, sep) == Drop(s, Find(s, sep) + Len(sep) - 1)

\* s.split(sep, 1)[0]
BeforeFirst(s, sep) == Take(s, Find(s, sep) - 1)

\* list(dict.fromkeys(xs)): duplicates removed, first occurrences kept in order
RECURSIVE Dedup(_)
Dedup(xs) ==
  IF xs = <<>> THEN <<>>
  ELSE LET init == Dedup(SubSeq(xs, 1, Len(xs) - 1))
           x == xs[Len(xs)]
       IN IF \E i \in 1..Len(init) : init[i] = x THEN init ELSE Append(init, x)

(***************************************************************************)
(* The string constants the source compares with and writes                *)
(***************************************************************************)
Lit_system == <<"s","y","s","t","e","m",":">>
Lit_SystemNotice == <<"S","y","s","t","e","m"," ","n","o","t","i","c","e">>
Lit_dashboard == <<"d","a","s","h","b","o","a","r","d">>
Lit_portal == <<"p","o","r","t","a","l">>
Lit_timestamp == <<"t","i","m","e","s","t","a","m","p">>
Lit_DashClean ==
  <<"D","a","s","h","b","o","a","r","d",":"," ","c","l","e","a","n"," ","f","e","e","d"," ",
  "(","r","e","m","o","v","e"," ","t","i","m","e","s","t","a","m","p","s",")">>
Lit_sysjson == <<"s","y","s",".","j","s","o","n">>
Lit_telemetry == <<"t","e","l","e","m","e","t","r","y">>
Lit_spark == <<"s","p","a","r","k">>
Lit_sparkline == <<"s","p","a","r","k","l","i","n","e">>
Lit_metrics == <<"m","e","t","r","i","c","s">>
Lit_DashMonitors ==
  <<"D","a","s","h","b","o","a","r","d",":"," ","s","y","s","t","e","m"," ","m","o","n","i",
  "t","o","r","s"," ","&"," ","g","r","a","p","h","s">>
Lit_tiles == <<"t","i","l","e","s">>
Lit_history == <<"h","i","s","t","o","r","y">>
Lit_DashTiles ==
  <<"D","a","s","h","b","o","a","r","d",":"," ","a","g","e","n","t"," ","t","i","l","e","s",
  " ","&"," ","h","i","s","t","o","r","y">>
Lit_DashUX ==
  <<"D","a","s","h","b","o","a","r","d",":"," ","U","X"," ","/"," ","l","i","v","e"," ","f",
  "e","e","d">>
Lit_rapp == <<"r","a","p","p">>
Lit_RappRun == <<"R","A","P","P",":"," ","r","e","s","e","a","r","c","h"," ","r","u","n">>
Lit_thought == <<"t","h","o","u","g","h","t">>
Lit_idea == <<"i","d","e","a">>
Lit_plan == <<"p","l","a","n">>
Lit_reflection == <<"r","e","f","l","e","c","t","i","o","n">>
Lit_decision == <<"d","e","c","i","s","i","o","n">>
Lit_risk == <<"r","i","s","k">>
Lit_insight == <<"i","n","s","i","g","h","t">>
Lit_highlight == <<"h","i","g","h","l","i","g","h","t">>
Lit_worklog == <<"w","o","r","k","l","o","g">>
Lit_activity == <<"a","c","t","i","v","i","t","y">>
Lit_message == <<"m","e","s","s","a","g","e">>
Lit_cognitive_log == <<"c","o","g","n","i","t","i","v","e"," ","l","o","g">>
Lit_cognitive_dash_log == <<"c","o","g","n","i","t","i","v","e","-","l","o","g">>
Lit_cognitive_us_log == <<"c","o","g","n","i","t","i","v","e","_","l","o","g">>
Lit_journal == <<"j","o","u","r","n","a","l">>
Lit_journal_log == <<"j","o","u","r","n","a","l"," ","l","o","g">>
Lit_journal_dash_log == <<"j","o","u","r","n","a","l","-","l","o","g">>
Lit_na == <<"n","/","a">>
Lit_na2 == <<"n","a">>
Lit_cron == <<"[","c","r","o","n",":">>
Lit_tar_task == <<"t","a","r"," ","t","a","s","k">>
Lit_research_task == <<"r","e","s","e","a","r","c","h"," ","t","a","s","k">>
Lit_tar_summary == <<"t","a","r"," ","s","u","m","m","a","r","y">>
Lit_paper_selected ==
  <<"*","*","p","a","p","e","r"," ","s","e","l","e","c","t","e","d",":","*","*">>
Lit_TarRan == <<"T","A","R"," ","r","a","n",":"," ">>
Lit_key_insights_low ==
  <<"k","e","y"," ","i","n","s","i","g","h","t","s"," ","e","x","t","r","a","c","t","e","d">>
Lit_KeyInsights ==
  <<"*","*","K","e","y"," ","i","n","s","i","g","h","t","s"," ","e","x","t","r","a","c","t",
  "e","d",":","*","*">>
Lit_pitch == <<"*","*","p","i","t","c","h",":","*","*">>
Lit_DashChanges ==
  <<"*","*","D","a","s","h","b","o","a","r","d"," ","c","h","a","n","g","e","s"," ","s","u",
  "g","g","e","s","t","e","d",":","*","*">>
Lit_deeper ==
  <<"d","e","e","p","e","r"," ","i","n","s","i","g","h","t","s"," ","n","e","e","d","e","d">>
Lit_RiskNote ==
  <<"E","a","r","l","y","-","s","t","a","g","e"," ","n","o","t","e",":"," ","d","e","e","p",
  "e","r"," ","s","t","a","g","e","s"," ","s","t","i","l","l"," ","n","e","e","d","e","d"," ",
  "b","e","f","o","r","e"," ","p","i","t","c","h","i","n","g","/","a","c","t","i","n","g",
  ".">>
Lit_RappNote ==
  <<"A","u","t","o","m","a","t","e","d"," ","r","e","s","e","a","r","c","h"," ","r","u","n",
  " ","c","o","m","p","l","e","t","e","d",";"," ","s","e","e"," ","a","c","t","i","v","i","t",
  "y"," ","d","e","t","a","i","l"," ","f","o","r"," ","s","o","u","r","c","e","s"," ","a","n",
  "d"," ","c","h","a","n","g","e","s",".">>
Lit_exec == <<"e","x","e","c">>
Lit_edit == <<"e","d","i","t">>
Lit_write == <<"w","r","i","t","e">>
Lit_web_fetch == <<"w","e","b","_","f","e","t","c","h">>
Lit_web_search == <<"w","e","b","_","s","e","a","r","c","h">>
Lit_git_commit == <<"g","i","t"," ","c","o","m","m","i","t">>
Lit_git_push == <<"g","i","t"," ","p","u","s","h">>
Lit_dash_m == <<" ","-","m"," ">>
Lit_GitCommit == <<"G","i","t",":"," ","c","o","m","m","i","t">>
Lit_GitPush == <<"G","i","t",":"," ","p","u","s","h">>
Lit_systemctl_restart == <<"s","y","s","t","e","m","c","t","l"," ","r","e","s","t","a","r","t">>
Lit_systemctl_status == <<"s","y","s","t","e","m","c","t","l"," ","s","t","a","t","u","s">>
Lit_ServiceRestarted ==
  <<"S","e","r","v","i","c","e",":"," ","r","e","s","t","a","r","t","e","d">>
Lit_ServiceStatus ==
  <<"S","e","r","v","i","c","e",":"," ","s","t","a","t","u","s"," ","c","h","e","c","k","e",
  "d">>
Lit_FileUpdated == <<"F","i","l","e"," ","u","p","d","a","t","e","d",":"," ">>
Lit_systemctl == <<"s","y","s","t","e","m","c","t","l">>
Lit_curl == <<"c","u","r","l">>
Lit_git_sp == <<"g","i","t"," ">>
Lit_df_sp == <<"d","f"," ">>
Lit_free_sp == <<"f","r","e","e"," ">>
Lit_uptime == <<"u","p","t","i","m","e">>
Lit_fetched == <<"f","e","t","c","h","e","d",":"," ">>
Lit_query == <<"q","u","e","r","y",":"," ">>
Lit_checked_service ==
  <<"c","h","e","c","k","e","d"," ","s","e","r","v","i","c","e"," ","s","t","a","t","u","s">>
Lit_verified_http ==
  <<"v","e","r","i","f","i","e","d"," ","H","T","T","P"," ","r","e","s","p","o","n","s","e">>
Lit_updated_repo == <<"u","p","d","a","t","e","d"," ","r","e","p","o">>
Lit_collected_stats ==
  <<"c","o","l","l","e","c","t","e","d"," ","s","y","s","t","e","m"," ","s","t","a","t","s">>
Lit_sent_notification == <<"s","e","n","t"," ","n","o","t","i","f","i","c","a","t","i","o","n">>
Lit_completed == <<"c","o","m","p","l","e","t","e","d">>
Lit_None == <<"N","o","n","e">>
Lit_error == <<"e","r","r","o","r">>
Lit_failed == <<"f","a","i","l","e","d">>
Lit_refused == <<"r","e","f","u","s","e","d">>
Lit_traceback == <<"t","r","a","c","e","b","a","c","k">>
Lit_exception == <<"e","x","c","e","p","t","i","o","n">>
Lit_Started == <<"S","t","a","r","t","e","d"," ">>
Lit_Stopped == <<"S","t","o","p","p","e","d"," ">>
Lit_Active == <<"A","c","t","i","v","e",":"," ">>
Lit_LISTEN == <<"L","I","S","T","E","N"," ">>
Lit_Connected == <<"C","o","n","n","e","c","t","e","d">>
Lit_Disconnected == <<"D","i","s","c","o","n","n","e","c","t","e","d">>
Lit_ActiveRunning ==
  <<"A","c","t","i","v","e",":"," ","a","c","t","i","v","e"," ","(","r","u","n","n","i","n",
  "g",")">>
Lit_SumListen ==
  <<"C","o","n","f","i","r","m","e","d"," ","a"," ","s","e","r","v","i","c","e"," ","i","s",
  " ","l","i","s","t","e","n","i","n","g"," ","o","n"," ","t","h","e"," ","e","x","p","e","c",
  "t","e","d"," ","p","o","r","t",".">>
Lit_SumStarted ==
  <<"S","e","r","v","i","c","e"," ","s","t","a","r","t","e","d"," ","s","u","c","c","e","s",
  "s","f","u","l","l","y",".">>
Lit_SumRunning ==
  <<"S","e","r","v","i","c","e"," ","i","s"," ","r","u","n","n","i","n","g",".">>
Lit_SumError ==
  <<"A","n"," ","e","r","r","o","r"," ","o","c","c","u","r","r","e","d"," ","(","s","e","e",
  " ","d","e","t","a","i","l","s",")",".">>
Lit_NoText ==
  <<"[","n","o"," ","t","e","x","t"," ",EmDash," ","p","o","s","s","i","b","l","y"," ","m",
  "e","d","i","a","-","o","n","l","y"," ","m","e","s","s","a","g","e","]">>
Lit_Activity == <<"A","c","t","i","v","i","t","y">>
Lit_Request == <<"R","e","q","u","e","s","t">>
Lit_Actions == <<"A","c","t","i","o","n","s">>
Lit_ToolsUsed == <<"-"," ","T","o","o","l","s"," ","u","s","e","d",":"," ">>
Lit_NotableOutputs == <<"N","o","t","a","b","l","e"," ","o","u","t","p","u","t","s">>
Lit_Response == <<"R","e","s","p","o","n","s","e">>
Lit_Highlights == <<"H","i","g","h","l","i","g","h","t","s">>
Lit_code_omitted == <<"[","c","o","d","e"," ","o","m","i","t","t","e","d","]">>
Lit_fence == <<Backtick,Backtick,Backtick>>
Lit_JournalDetail == <<"J","o","u","r","n","a","l">>
Lit_WorklogDetail == <<"W","o","r","k","l","o","g">>
Lit_NewRequest == <<"N","e","w"," ","r","e","q","u","e","s","t",":"," ">>
Lit_WhatDAsked == <<"W","h","a","t"," ","D"," ","a","s","k","e","d">>
Lit_media == <<"[","m","e","d","i","a"," ","a","t","t","a","c","h","e","d","]">>

\* Python's None, and str(x), bool(x) of a value that may be None
PyNone == <<"NONE">>
PyStr(x) == IF x = PyNone THEN Lit_None ELSE x
Truthy(x) == x # PyNone /\ x # <<>>

(***************************************************************************)
(* openclaw_tailer.py: text helpers                                        *)
(***************************************************************************)
\* _short(s, n) with the fault of cutting at n characters without the ellipsis
ShortHardCut(s, n) == Take(Strip(s), n)

\* _short(s, n)
_short(s, n) ==
  LET cut(t) == IF Len(t) <= n THEN t ELSE Take(t, n - 1) \o <<Ellipsis>>
  IN cut(Strip(s))

\* _strip_leading_timestamp(s)
_strip_leading_timestamp(s) ==
  LET unbracket(t) ==
        IF t # <<>> /\ t[1] = "[" /\ Contains(Take(t, 64), <<"]">>)
        THEN LStrip(AfterFirst(t, <<"]">>))
        ELSE t
  IN unbracket(LStrip(s))

\* _topic_summary(s)
_topic_summary(s) ==
  LET topic(t, low) ==
        IF StartsWith(low, Lit_system) THEN Lit_SystemNotice
        ELSE IF Contains(low, Lit_dashboard) \/ Contains(low, Lit_portal)
        THEN IF Contains(low, Lit_timestamp) THEN Lit_DashClean
             ELSE IF \/ Contains(low, Lit_sysjson) \/ Contains(low, Lit_telemetry)
                     \/ Contains(low, Lit_spark) \/ Contains(low, Lit_sparkline)
                     \/ Contains(low, Lit_metrics)
             THEN Lit_DashMonitors
             ELSE IF Contains(low, Lit_tiles) \/ Contains(low, Lit_history) THEN Lit_DashTiles
             ELSE Lit_DashUX
        ELSE IF Contains(low, Lit_rapp) THEN Lit_RappRun
        ELSE _short(ReplaceChar(t, NL, " "), 90)
      of(t) == topic(t, Lower(t))
  IN of(_strip_leading_timestamp(s))

(***************************************************************************)
(* openclaw_tailer.py: the explicit cognitive footer                       *)
(***************************************************************************)
CogHeaders ==
  {Lit_cognitive_log, Lit_cognitive_dash_log, Lit_cognitive_us_log,
   Lit_journal, Lit_journal_log, Lit_journal_dash_log}

CogAllowed ==
  {Lit_thought, Lit_idea, Lit_plan, Lit_reflection, Lit_decision, Lit_risk,
   Lit_insight, Lit_highlight}

CogPlaceholders == {<<"-">>, <<"-","-">>, <<EmDash>>, <<Ellipsis>>, Lit_na, Lit_na2}

\* the place of the line after the first header line, 0 when there is no header
CogStart(lines) ==
  LET heads == {i \in 1..Len(lines) : Lower(Strip(lines[i])) \in CogHeaders}
  IN IF heads = {} THEN 0 ELSE (CHOOSE i \in heads : \A j \in heads : i <= j) + 1

\* the guardrail of _parse_cognitive_log against code-like content
CogCodeish(content) ==
  \/ Contains(content, <<Backtick>>)
  \/ Contains(content, <<"(", ")">>)
  \/ StartsWith(Strip(content), <<"_">>)

\* the loop of _parse_cognitive_log over lines[i..last], out being what it has collected
RECURSIVE CogLoop(_, _, _, _)
CogLoop(lines, i, last, out) ==
  IF i > last \/ i > Len(lines) THEN out
  ELSE
    LET more(out2) == IF Len(out2) >= 12 THEN out2 ELSE CogLoop(lines, i + 1, last, out2)
        entry(typ, content) ==
          IF typ \notin CogAllowed THEN CogLoop(lines, i + 1, last, out)
          ELSE IF content = <<>> THEN CogLoop(lines, i + 1, last, out)
          ELSE IF Lower(Strip(content)) \in CogPlaceholders THEN CogLoop(lines, i + 1, last, out)
          ELSE IF Len(Strip(content)) < 8 THEN CogLoop(lines, i + 1, last, out)
          ELSE IF CogCodeish(content) THEN CogLoop(lines, i + 1, last, out)
          ELSE more(Append(out, <<typ, _short(content, 420)>>))
        bullet(item) ==
          IF ~Contains(item, <<":">>) THEN CogLoop(lines, i + 1, last, out)
          ELSE entry(Lower(Strip(BeforeFirst(item, <<":">>))),
                     Strip(AfterFirst(item, <<":">>)))
        line(raw) ==
          IF raw = <<>> \/ raw[1] # "-"
          THEN IF out # <<>> THEN out ELSE CogLoop(lines, i + 1, last, out)
          ELSE bullet(Strip(LStripChar(raw, "-")))
    IN line(Strip(lines[i]))

\* _parse_cognitive_log(text): the (type, content) pairs of the footer
_parse_cognitive_log(text) ==
  IF Strip(text) = <<>> THEN <<>>
  ELSE
    LET from(lines, start) ==
          IF start = 0 THEN <<>> ELSE CogLoop(lines, start, start + 39, <<>>)
        scan(lines) == from(lines, CogStart(lines))
        rstrip(raws) == scan([i \in 1..Len(raws) |-> RStrip(raws[i])])
    IN rstrip(SplitLines(text))

\* re.sub(r"```.*?```", "[code omitted]", s, flags=re.S) of build_events
RECURSIVE RemoveFences(_)
RemoveFences(s) ==
  LET close(i, rest, j) ==
        IF i = 0 \/ j = 0 THEN s
        ELSE Take(s, i - 1) \o Lit_code_omitted \o RemoveFences(Drop(rest, j + 2))
      inside(i, rest) == close(i, rest, Find(rest, Lit_fence))
      open(i) == inside(i, Drop(s, i + 2))
  IN open(Find(s, Lit_fence))

(***************************************************************************)
(* openclaw_tailer.py: the derivation for automated runs                   *)
(***************************************************************************)
\* automated, of _derive_journal_from_summary: the request is a scheduled run
Automated(user_request) ==
  LET req_low == Lower(user_request)
  IN \/ Contains(req_low, Lit_cron)
     \/ StartsWith(req_low, Lit_tar_task)
     \/ StartsWith(req_low, Lit_research_task)

\* up to the end of the line: what '.+' matches from the start of s
ToLineEnd(s) == IF Contains(s, <<NL>>) THEN BeforeFirst(s, <<NL>>) ELSE s

\* re.search(marker + r"\s*(.+)", text, flags=re.I): <<matched, group(1)>>.
\* marker is in lower case.  \s* takes all the white space after the marker; when
\* nothing but white space follows, it gives back up to the last character that
\* is no line break, which '.+' then matches.
SearchAfter(text, marker) ==
  LET group(rest, body, dots) ==
        IF body # <<>> THEN <<TRUE, ToLineEnd(body)>>
        ELSE IF dots = {} THEN <<FALSE, <<>>>>
        ELSE <<TRUE, ToLineEnd(Drop(rest, (CHOOSE q \in dots : \A r \in dots : r <= q) - 1))>>
      after(rest) == group(rest, LStrip(rest), {q \in 1..Len(rest) : rest[q] # NL})
      found(at) ==
        IF at = 0 THEN <<FALSE, <<>>>> ELSE after(Drop(text, at + Len(marker) - 1))
  IN found(Find(Lower(text), marker))

\* re.sub(r"^\d+\.\s*", '', ln)
StripNumbering(ln) ==
  LET dot(d) == IF d > 1 /\ d <= Len(ln) /\ ln[d] = "." THEN LStrip(Drop(ln, d)) ELSE ln
      first(nondig) ==
        dot(IF nondig = {} THEN Len(ln) + 1 ELSE CHOOSE i \in nondig : \A j \in nondig : i <= j)
  IN first({i \in 1..Len(ln) : ln[i] \notin DigitChars})

\* re.sub(r"\*\*(.*?)\*\*", r"\1", ln)
RECURSIVE StripBold(_)
StripBold(s) ==
  LET close(i, rest, j) ==
        IF i = 0 \/ j = 0 THEN s
        ELSE Take(s, i - 1) \o Take(rest, j - 1) \o StripBold(Drop(rest, j + 1))
      inside(i, rest) == close(i, rest, Find(rest, <<"*", "*">>))
      open(i) == inside(i, Drop(s, i + 1))
  IN open(Find(s, <<"*", "*">>))

NumThoughts(out) == Cardinality({i \in 1..Len(out) : out[i][1] = Lit_thought})

\* the loop over the lines of the "Key insights extracted" block
RECURSIVE InsightLoop(_, _, _)
InsightLoop(lines, i, out) ==
  IF i > Len(lines) THEN out
  ELSE
    LET more(out2) == IF NumThoughts(out2) >= 3 THEN out2 ELSE InsightLoop(lines, i + 1, out2)
        line(ln) ==
          IF ln = <<>> \/ ln[1] \notin DigitChars
          THEN IF out # <<>> /\ Len(out) >= 3 THEN out ELSE InsightLoop(lines, i + 1, out)
          ELSE more(Append(out, <<Lit_thought, _short(StripBold(StripNumbering(ln)), 420)>>))
    IN line(Strip(lines[i]))

\* the first line of the "Dashboard changes suggested" block that starts with '- '
PlanLines(block) ==
  LET first(raws, hits) ==
        IF hits = {} THEN <<>>
        ELSE <<<<Lit_plan,
                 _short(Strip(Drop(Strip(raws[CHOOSE i \in hits : \A j \in hits : i <= j]), 2)),
                        420)>>>>
      bullets(raws) ==
        first(raws, {i \in 1..Len(raws) : StartsWith(Strip(raws[i]), <<"-", " ">>)})
  IN bullets(SplitLines(block))

\* the 'tar summary' branch of _derive_journal_from_summary
DeriveTar(text) ==
  LET block == IF Contains(text, Lit_KeyInsights) THEN AfterFirst(text, Lit_KeyInsights) ELSE <<>>
      paper(m) ==
        IF m[1] THEN <<<<Lit_thought, _short(Lit_TarRan \o Strip(m[2]), 420)>>>> ELSE <<>>
      insights(low, out1) ==
        IF Contains(low, Lit_key_insights_low) THEN InsightLoop(SplitLines(block), 1, out1)
        ELSE out1
      pitch(m, out2) ==
        IF m[1] THEN Append(out2, <<Lit_decision, _short(Strip(m[2]), 420)>>) ELSE out2
      changes(out3) ==
        IF Contains(text, Lit_DashChanges)
        THEN out3 \o PlanLines(AfterFirst(text, Lit_DashChanges))
        ELSE out3
      deeper(low, out4) ==
        IF Contains(low, Lit_deeper)
        THEN Append(out4, <<Lit_risk, _short(Lit_RiskNote, 420)>>)
        ELSE out4
      all(low) ==
        deeper(low, changes(pitch(SearchAfter(text, Lit_pitch),
                                  insights(low, paper(SearchAfter(text, Lit_paper_selected))))))
  IN all(Lower(text))

\* _derive_journal_from_summary with the fault of not testing for an automated request
DeriveUngated(text, user_request) ==
  LET derive(low) ==
        IF Strip(text) = <<>> THEN <<>>
        ELSE IF Contains(low, Lit_tar_summary) THEN Take(DeriveTar(text), 6)
        ELSE IF Contains(low, Lit_rapp) \/ Contains(low, Lit_research_task)
        THEN <<<<Lit_thought, _short(Lit_RappNote, 420)>>>>
        ELSE <<>>
  IN derive(Lower(text))

\* _derive_journal_from_summary(text, user_request)
_derive_journal_from_summary(text, user_request) ==
  LET derive(low) ==
        IF Strip(text) = <<>> THEN <<>>
        ELSE IF ~Automated(user_request) THEN <<>>
        ELSE IF Contains(low, Lit_tar_summary) THEN Take(DeriveTar(text), 6)
        ELSE IF Contains(low, Lit_rapp) \/ Contains(low, Lit_research_task)
        THEN <<<<Lit_thought, _short(Lit_RappNote, 420)>>>>
        ELSE <<>>
  IN derive(Lower(text))

(***************************************************************************)
(* openclaw_tailer.py: worklog lines and tool purposes                     *)
(*                                                                         *)
(* A tool call is [name, arguments]; arguments is the record of the keys   *)
(* the source reads, PyNone standing for a missing key.                    *)
(***************************************************************************)
NoArgs == [query |-> PyNone, command |-> PyNone, path |-> PyNone, file_path |-> PyNone, url |-> PyNone]

\* x or ''
OrEmpty(x) == IF Truthy(x) THEN x ELSE <<>>

\* the worklog line of one exec call, <<>> when it has none
ExecWorklog(tc) ==
  LET commit(msg) ==
        <<Lit_GitCommit \o (IF msg # <<>> THEN <<" ", EmDash, " ">> \o msg ELSE <<>>)>>
      line(one, low) ==
        IF Contains(low, Lit_git_commit)
        THEN commit(IF Contains(one, Lit_dash_m)
                    THEN StripChar(StripChar(Strip(AfterFirst(one, Lit_dash_m)), "\""), "'")
                    ELSE <<>>)
        ELSE IF Contains(low, Lit_git_push) THEN <<Lit_GitPush>>
        ELSE IF Contains(low, Lit_systemctl_restart) THEN <<Lit_ServiceRestarted>>
        ELSE IF Contains(low, Lit_systemctl_status) THEN <<Lit_ServiceStatus>>
        ELSE <<>>
      of(one) == line(one, Lower(one))
  IN of(Flat(OrEmpty(tc.arguments.command)))

\* the first loop of _worklog_from_tool_calls, which stops at three lines
RECURSIVE ExecLoop(_, _, _)
ExecLoop(tool_calls, i, out) ==
  IF i > Len(tool_calls) THEN out
  ELSE
    LET more(out2) == IF Len(out2) >= 3 THEN out2 ELSE ExecLoop(tool_calls, i + 1, out2)
    IN IF Strip(OrEmpty(tool_calls[i].name)) # Lit_exec THEN ExecLoop(tool_calls, i + 1, out)
       ELSE more(out \o ExecWorklog(tool_calls[i]))

\* the second loop of _worklog_from_tool_calls: the first edit or write with a path
FileWorklog(tool_calls) ==
  LET path(tc) == IF Truthy(tc.arguments.path) THEN tc.arguments.path ELSE tc.arguments.file_path
      first(hits) ==
        IF hits = {} THEN <<>>
        ELSE <<Lit_FileUpdated \o path(tool_calls[CHOOSE i \in hits : \A j \in hits : i <= j])>>
  IN first({i \in 1..Len(tool_calls) :
              /\ Strip(OrEmpty(tool_calls[i].name)) \in {Lit_edit, Lit_write}
              /\ Truthy(path(tool_calls[i]))})

\* _worklog_from_tool_calls with the fault of returning the lines without removing duplicates
WorklogNoDedup(tool_calls) ==
  LET files(out) == IF Len(out) < 3 THEN out \o FileWorklog(tool_calls) ELSE out
  IN Take(files(ExecLoop(tool_calls, 1, <<>>)), 3)

\* _worklog_from_tool_calls(tool_calls)
_worklog_from_tool_calls(tool_calls) ==
  LET files(out) == IF Len(out) < 3 THEN out \o FileWorklog(tool_calls) ELSE out
  IN Take(Dedup(files(ExecLoop(tool_calls, 1, <<>>))), 3)

\* _tool_purpose(tool_name, args)[1]: what the call accomplished
_tool_purpose(tool_name, args) ==
  LET scmd == IF args.command = PyNone THEN <<>> ELSE args.command
  IN IF tool_name = Lit_web_fetch THEN Lit_fetched \o _short(PyStr(args.url), 80)
     ELSE IF tool_name = Lit_web_search THEN Lit_query \o _short(PyStr(args.query), 80)
     ELSE IF tool_name = Lit_exec
     THEN IF Contains(scmd, Lit_systemctl) THEN Lit_checked_service
          ELSE IF Contains(scmd, Lit_curl) THEN Lit_verified_http
          ELSE IF Contains(scmd, Lit_git_sp) THEN Lit_updated_repo
          ELSE IF \/ Contains(scmd, Lit_df_sp) \/ Contains(scmd, Lit_free_sp)
                  \/ Contains(scmd, Lit_uptime)
          THEN Lit_collected_stats
          ELSE _short(ReplaceChar(scmd, NL, " "), 120)
     ELSE IF tool_name = Lit_message THEN Lit_sent_notification
     ELSE Lit_completed

(***************************************************************************)
(* openclaw_tailer.py: TurnAccumulator                                     *)
(*                                                                         *)
(* The accumulator is the record of its six attributes; each method is the *)
(* operator that maps the accumulator to the accumulator after the call.   *)
(***************************************************************************)
\* TurnAccumulator.reset
reset ==
  [tool_calls |-> <<>>, user_text |-> <<>>, user_ts |-> <<>>, tool_results |-> <<>>,
   thinking |-> <<>>, response_text |-> <<>>]

\* TurnAccumulator.add_user with the fault of keeping what was accumulated
AddUserNoReset(acc, ts_iso, text) == [acc EXCEPT !.user_ts = ts_iso, !.user_text = Strip(text)]

\* TurnAccumulator.add_user
add_user(acc, ts_iso, text) == [reset EXCEPT !.user_ts = ts_iso, !.user_text = Strip(text)]

\* TurnAccumulator.add_tool_call with the fault of putting the call first
AddToolCallFront(acc, name, args) ==
  [acc EXCEPT !.tool_calls = <<[arguments |-> args, name |-> name]>> \o @]

\* TurnAccumulator.add_tool_call
add_tool_call(acc, name, args) ==
  [acc EXCEPT !.tool_calls = Append(@, [arguments |-> args, name |-> name])]

ContainsAny(s, subs) == \E k \in subs : Contains(s, k)

\* TurnAccumulator.add_tool_result
add_tool_result(acc, tool_name, aggregated) ==
  LET keep(out, low) ==
        \/ ContainsAny(low, {Lit_error, Lit_failed, Lit_refused, Lit_traceback, Lit_exception})
        \/ ContainsAny(out, {Lit_Started, Lit_Stopped, Lit_Active, Lit_LISTEN,
                             Lit_Connected, Lit_Disconnected})
      summary(out, low) ==
        IF Contains(out, Lit_LISTEN) THEN Lit_SumListen
        ELSE IF Contains(out, Lit_Started) THEN Lit_SumStarted
        ELSE IF Contains(out, Lit_ActiveRunning) THEN Lit_SumRunning
        ELSE IF ContainsAny(low, {Lit_failed, Lit_error, Lit_exception, Lit_traceback})
        THEN Lit_SumError
        ELSE _short(ReplaceChar(out, NL, " "), 180)
      add(out, low) ==
        IF out = <<>> \/ ~keep(out, low) THEN acc
        ELSE [acc EXCEPT !.tool_results = Append(@, [out |-> summary(out, low),
                                                     tool |-> tool_name])]
      of(out) == add(out, Lower(out))
  IN of(Strip(aggregated))

\* TurnAccumulator.add_thinking
add_thinking(acc, snippets) == [acc EXCEPT !.thinking = @ \o snippets]

\* TurnAccumulator.add_response
add_response(acc, text) == IF text # <<>> THEN [acc EXCEPT !.response_text = text] ELSE acc

(***************************************************************************)
(* TurnAccumulator.build_events                                            *)
(***************************************************************************)
\* the "Actions" lines: the tools used, and what the first four distinct tools did
ActionLines(tool_calls) ==
  LET RECURSIVE NoNone(_)
      NoNone(xs) == IF xs = <<>> THEN <<>>
                    ELSE (IF xs[1] = PyNone THEN <<>> ELSE <<xs[1]>>) \o NoNone(Tail(xs))
      first(named, n) == CHOOSE i \in named : tool_calls[i].name = n /\
                             \A j \in named : tool_calls[j].name = n => i <= j
      used(uniq) ==
        IF uniq = <<>> THEN <<>>
        ELSE <<Lit_ToolsUsed \o Join(Take(uniq, 6), <<",", " ">>)
                 \o (IF Len(uniq) > 6 THEN <<Ellipsis>> ELSE <<>>)>>
      did(named, uniq) ==
        [k \in 1..(IF Len(uniq) < 4 THEN Len(uniq) ELSE 4) |->
           <<"-", " ">> \o uniq[k] \o <<":", " ">>
             \o _tool_purpose(uniq[k], tool_calls[first(named, uniq[k])].arguments)]
      lines(named, uniq) == <<<<>>, Lit_Actions>> \o used(uniq) \o did(named, uniq)
      of(named) ==
        lines(named, NoNone(Dedup([i \in 1..Len(tool_calls) |->
                                     IF i \in named THEN tool_calls[i].name ELSE PyNone])))
  IN IF tool_calls = <<>> THEN <<>>
     ELSE of({i \in 1..Len(tool_calls) : Truthy(tool_calls[i].name)})

\* the "Notable outputs" lines
OutputLines(tool_results) ==
  LET RECURSIVE Kept(_)
      Kept(xs) == IF xs = <<>> THEN <<>>
                  ELSE (IF Truthy(xs[1].out) THEN <<xs[1]>> ELSE <<>>) \o Kept(Tail(xs))
      lines(kept) ==
        IF kept = <<>> THEN <<>>
        ELSE <<<<>>, Lit_NotableOutputs>> \o [k \in 1..Len(kept) |-> <<"-", " ">> \o kept[k].out]
  IN lines(Take(Kept(tool_results), 3))

AllowPrefixes ==
  {<<"f","i","x","e","d">>, <<"a","d","d","e","d">>, <<"c","h","a","n","g","e","d">>,
   <<"d","e","p","l","o","y","e","d">>, <<"c","o","m","m","i","t","t","e","d">>,
   <<"p","u","s","h","e","d">>, <<"r","e","s","t","a","r","t","e","d">>,
   <<"r","e","s","u","l","t">>, <<"r","o","o","t"," ","c","a","u","s","e">>,
   <<"n","e","x","t">>, <<"n","o","t","e">>, Lit_risk, Lit_decision}

\* the test of the highlights loop on one bullet item
IsHighlight(item) ==
  /\ ~Contains(item, <<Backtick>>)
  /\ ~(/\ Contains(item, <<"(">>) /\ Contains(item, <<")">>)
       /\ \E i \in 1..Len(BeforeFirst(item, <<"(">>)) : IsAlnum(item[i]))
  /\ ~(StartsWith(item, <<"_">>) \/ Contains(item, <<"(", ")">>) \/ CountChar(item, "_") >= 2)
  /\ \E p \in AllowPrefixes : StartsWith(Lower(item), p)

\* the highlights loop over rt_lines[:60], which stops at three highlights
RECURSIVE HighlightLoop(_, _, _)
HighlightLoop(rt_lines, i, out) ==
  IF i > Len(rt_lines) \/ i > 60 THEN out
  ELSE
    LET more(out2) == IF Len(out2) >= 3 THEN out2 ELSE HighlightLoop(rt_lines, i + 1, out2)
        bullet(item) ==
          IF ~StartsWith(rt_lines[i], <<"-", " ">>) \/ ~IsHighlight(item)
          THEN HighlightLoop(rt_lines, i + 1, out)
          ELSE more(Append(out, _short(item, 140)))
    IN bullet(Strip(Drop(rt_lines[i], 2)))

\* [ln.strip() for ln in rt.splitlines() if ln.strip()]
RECURSIVE NonEmptyLines(_)
NonEmptyLines(raws) ==
  LET keep(ln) == IF ln = <<>> THEN <<>> ELSE <<ln>>
  IN IF raws = <<>> THEN <<>> ELSE keep(Strip(raws[1])) \o NonEmptyLines(Tail(raws))

\* re.split(r"(?<=[.!?])\s+", flat), flat having single blanks only
RECURSIVE SentenceSplit(_)
SentenceSplit(flat) ==
  LET at(c) == <<Take(flat, c - 1)>> \o SentenceSplit(Drop(flat, c))
      split(cuts) ==
        IF cuts = {} THEN <<flat>> ELSE at(CHOOSE i \in cuts : \A j \in cuts : i <= j)
  IN split({i \in 2..Len(flat) : flat[i] = " " /\ flat[i - 1] \in {".", "!", "?"}})

\* the cognitive entries of a response: the explicit footer, else the derivation
ElseDerived(cog, rt, user_clean) ==
  IF cog # <<>> THEN cog ELSE _derive_journal_from_summary(rt, user_clean)

Cognition(rt, user_clean) == ElseDerived(_parse_cognitive_log(rt), rt, user_clean)

\* user_clean of build_events
ElseNoText(c) == IF c = <<>> THEN Lit_NoText ELSE c

UserClean(acc) == ElseNoText(_strip_leading_timestamp(Strip(acc.user_text)))

\* the "Response" lines: the first two sentences of the response rt
ResponseLines(acc, rt) ==
  IF acc.response_text # <<>>
  THEN <<<<>>, Lit_Response,
         <<"-", " ">> \o _short(Strip(Join(Take(SentenceSplit(Flat(rt)), 2), <<" ">>)), 700)>>
  ELSE <<>>

\* the "Highlights" lines of the highlights hs
HighlightLines(hs) ==
  IF hs # <<>>
  THEN <<<<>>, Lit_Highlights>> \o [k \in 1..Len(hs) |-> <<"-", " ">> \o hs[k]]
  ELSE <<>>

\* the lines of detail_text with the fault of listing the thinking excerpts
DetailLinesWithThinking(acc, rt) ==
  <<Lit_Request, <<"-", " ">> \o _short(UserClean(acc), 1600)>>
  \o [k \in 1..Len(acc.thinking) |-> <<"-", " ">> \o acc.thinking[k]]
  \o ResponseLines(acc, rt)

\* the lines of detail_text, rt being the response without its fenced code
DetailLines(acc, rt) ==
  <<Lit_Request, <<"-", " ">> \o _short(UserClean(acc), 1600)>>
  \o ActionLines(acc.tool_calls)
  \o OutputLines(acc.tool_results)
  \o ResponseLines(acc, rt)
  \o HighlightLines(IF acc.response_text # <<>>
                    THEN HighlightLoop(NonEmptyLines(SplitLines(rt)), 1, <<>>)
                    ELSE <<>>)

\* detail_text of build_events
DetailText(acc) == Strip(Join(DetailLines(acc, RemoveFences(acc.response_text)), <<NL>>))

\* an event (type, summary, detail_text)
Event(typ, summary, detail) == [typ |-> typ, summary |-> summary, detail |-> detail]

\* build_events: the events of the cognitive entries cog
JournalEvents(cog) ==
  [k \in 1..Len(cog) |->
     Event(cog[k][1], cog[k][2],
           Lit_JournalDetail \o <<NL, "-", " ">> \o cog[k][1] \o <<":", " ">> \o cog[k][2])]

\* build_events with the fault of leaving the worklog events out
WorklogEventsNone(wl) == <<>>

\* build_events: the events of the worklog lines wl
WorklogEvents(wl) ==
  [k \in 1..Len(wl) |-> Event(Lit_worklog, wl[k], Lit_WorklogDetail \o <<NL, "-", " ">> \o wl[k])]

\* build_events: the cognitive entries of the turn
TurnCognition(acc, user_clean) ==
  IF acc.response_text # <<>>
  THEN Take(Cognition(RemoveFences(acc.response_text), user_clean), 12)
  ELSE <<>>

\* build_events with the fault of leaving the activity event out when there is a journal
ActivityUnlessJournal(acc, cog) ==
  JournalEvents(cog)
  \o WorklogEvents(Take(_worklog_from_tool_calls(acc.tool_calls), 3))
  \o (IF cog = <<>> THEN <<Event(Lit_activity, Lit_Activity, DetailText(acc))>> ELSE <<>>)

BuildEventsDropActivity(acc) == ActivityUnlessJournal(acc, TurnCognition(acc, UserClean(acc)))

\* build_events: summary
ElseActivity(topic) == IF topic # <<>> THEN topic ELSE Lit_Activity

\* build_events: the events of the turn, user_clean being known
TurnEvents(acc, user_clean) ==
  JournalEvents(TurnCognition(acc, user_clean))
  \o WorklogEvents(Take(_worklog_from_tool_calls(acc.tool_calls), 3))
  \o <<Event(Lit_activity, ElseActivity(_topic_summary(user_clean)), DetailText(acc))>>

\* TurnAccumulator.build_events
build_events(acc) == TurnEvents(acc, UserClean(acc))

(***************************************************************************)
(* openclaw_tailer.py: reading one record                                  *)
(*                                                                         *)
(* A record (one parsed line) is [has_message, role, content, toolName,    *)
(* aggregated, timestamp].  content is [kind, str, blocks]: a string       *)
(* (kind "str"), a list of blocks (kind "list") or anything else; a block  *)
(* is [type, text, name, arguments, thinking, media].                      *)
(***************************************************************************)
TextBlock(t) ==
  [text |-> t, arguments |-> NoArgs, name |-> PyNone, thinking |-> PyNone, media |-> FALSE, type |-> "text"]
ToolCallBlock(n, a) ==
  [text |-> PyNone, arguments |-> a, name |-> n, thinking |-> PyNone, media |-> FALSE, type |-> "toolCall"]
ThinkingBlock(t) ==
  [text |-> PyNone, arguments |-> NoArgs, name |-> PyNone, thinking |-> t, media |-> FALSE, type |-> "thinking"]
MediaBlock ==
  [text |-> PyNone, arguments |-> NoArgs, name |-> PyNone, thinking |-> PyNone, media |-> TRUE, type |-> "image"]

StrContent(t) == [kind |-> "str", str |-> t, blocks |-> <<>>]
ListContent(bs) == [kind |-> "list", str |-> <<>>, blocks |-> bs]

UserRecord(ts, content) ==
  [content |-> content, aggregated |-> PyNone, timestamp |-> ts, has_message |-> TRUE,
   role |-> "user", toolName |-> PyNone]
AssistantRecord(ts, content) ==
  [content |-> content, aggregated |-> PyNone, timestamp |-> ts, has_message |-> TRUE,
   role |-> "assistant", toolName |-> PyNone]
ToolResultRecord(ts, tool, agg) ==
  [content |-> StrContent(<<>>), aggregated |-> agg, timestamp |-> ts, has_message |-> TRUE,
   role |-> "toolResult", toolName |-> tool]
OtherRecord(ts) ==
  [content |-> StrContent(<<>>), aggregated |-> PyNone, timestamp |-> ts, has_message |-> FALSE,
   role |-> "none", toolName |-> PyNone]

\* the stripped non-empty texts of the text blocks, in order
RECURSIVE BlockTexts(_)
BlockTexts(bs) ==
  IF bs = <<>> THEN <<>>
  ELSE (IF bs[1].type = "text" /\ bs[1].text # PyNone /\ Strip(bs[1].text) # <<>>
        THEN <<Strip(bs[1].text)>> ELSE <<>>) \o BlockTexts(Tail(bs))

\* _extract_user_text(content)
_extract_user_text(content) ==
  IF content.kind = "str" THEN content.str
  ELSE IF content.kind = "list"
  THEN LET joined(texts) ==
             IF texts # <<>> THEN Strip(Join(texts, <<NL>>))
             ELSE IF \E i \in 1..Len(content.blocks) : content.blocks[i].media THEN Lit_media
             ELSE <<>>
       IN joined(BlockTexts(content.blocks))
  ELSE <<>>

RECURSIVE BlockToolCalls(_)
BlockToolCalls(bs) ==
  IF bs = <<>> THEN <<>>
  ELSE (IF bs[1].type = "toolCall"
        THEN <<[arguments |-> bs[1].arguments, name |-> bs[1].name]>> ELSE <<>>)
       \o BlockToolCalls(Tail(bs))

RECURSIVE BlockThinking(_)
BlockThinking(bs) ==
  IF bs = <<>> THEN <<>>
  ELSE (IF bs[1].type = "thinking" /\ bs[1].thinking # PyNone /\ Strip(bs[1].thinking) # <<>>
        THEN <<_short(Strip(bs[1].thinking), 220)>> ELSE <<>>)
       \o BlockThinking(Tail(bs))

\* _extract_assistant_text_blocks(content)
_extract_assistant_text_blocks(content) ==
  IF content.kind = "str"
  THEN [tool_calls |-> <<>>, response_text |-> content.str, thinking_snips |-> <<>>]
  ELSE IF content.kind = "list"
  THEN [tool_calls |-> BlockToolCalls(content.blocks),
        response_text |-> Strip(Join(BlockTexts(content.blocks), <<NL>>)),
        thinking_snips |-> BlockThinking(content.blocks)]
  ELSE [tool_calls |-> <<>>, response_text |-> <<>>, thinking_snips |-> <<>>]

RECURSIVE AddToolCalls(_, _)
AddToolCalls(acc, tcs) ==
  IF tcs = <<>> THEN acc
  ELSE AddToolCalls(add_tool_call(acc, tcs[1].name, tcs[1].arguments), Tail(tcs))

\* event_summary, role 'user': the message event of the text, clean being the text
\* without its leading time stamp
\* the return of event_summary for a user message with the fault of completing
\* the turn before: the events of build_events come first
MessageEventCompleting(acc, ts_iso, text, clean) ==
  [acc |-> add_user(acc, ts_iso, text),
   ev |-> build_events(acc)
          \o <<Event(Lit_message, Lit_NewRequest \o _topic_summary(clean),
                     Lit_WhatDAsked \o <<NL, "-", " ">> \o _short(Strip(clean), 1200))>>]

MessageEvent(acc, ts_iso, text, clean) ==
  [acc |-> add_user(acc, ts_iso, text),
   ev |-> <<Event(Lit_message, Lit_NewRequest \o _topic_summary(clean),
                  Lit_WhatDAsked \o <<NL, "-", " ">> \o _short(Strip(clean), 1200))>>]

UserMessage(acc, ts_iso, text) ==
  MessageEvent(acc, ts_iso, text, _strip_leading_timestamp(text))

\* event_summary, role 'assistant': the steps after the tool calls are added
Built(a3) == [acc |-> a3, ev |-> build_events(a3)]

WithResponse(a2, response_text) ==
  IF response_text # <<>> THEN Built(add_response(a2, response_text))
  ELSE [acc |-> a2, ev |-> <<>>]

WithThinking(a1, x) ==
  WithResponse(IF x.thinking_snips # <<>> THEN add_thinking(a1, x.thinking_snips) ELSE a1,
               x.response_text)

\* event_summary, role 'assistant', with the fault of resetting the accumulator
\* once build_events has returned
AssistantMessageResetting(acc, x) ==
  LET done(r) == [acc |-> IF r.ev # <<>> THEN reset ELSE r.acc, ev |-> r.ev]
  IN done(WithThinking(AddToolCalls(acc, x.tool_calls), x))

AssistantMessage(acc, x) == WithThinking(AddToolCalls(acc, x.tool_calls), x)

\* event_summary(obj) on the accumulator acc: the accumulator after the call, and
\* the events returned (<<>> for None)
event_summary(acc, obj) ==
  IF ~obj.has_message THEN [acc |-> acc, ev |-> <<>>]
  ELSE IF obj.role = "user"
  THEN UserMessage(acc, obj.timestamp, _extract_user_text(obj.content))
  ELSE IF obj.role = "assistant"
  THEN AssistantMessage(acc, _extract_assistant_text_blocks(obj.content))
  ELSE IF obj.role = "toolResult"
  THEN [acc |-> IF Truthy(obj.toolName) /\ Truthy(obj.aggregated)
                THEN add_tool_result(acc, obj.toolName, obj.aggregated)
                ELSE acc,
        ev |-> <<>>]
  ELSE [acc |-> acc, ev |-> <<>>]

(***************************************************************************)
(* The inputs of the accumulator's specification                           *)
(***************************************************************************)
In_U_plain ==
  <<"p","l","e","a","s","e"," ","r","e","s","t","a","r","t"," ","t","h","e"," ","s","e","r",
  "v","i","c","e">>
In_U_tar == <<"t","a","r"," ","t","a","s","k",":"," ","w","e","e","k","l","y">>
In_U_ts_tar ==
  <<"[","T","h","u","]"," ","t","a","r"," ","t","a","s","k",":"," ","w","e","e","k","l","y">>
In_U_cron_mid == <<"r","u","n"," ","[","c","r","o","n",":","a","1","]"," ","n","o","w">>
In_U_cron_lead == <<"[","c","r","o","n",":","a","1","]"," ","r","u","n">>
In_R_plain == <<"R","e","s","t","a","r","t","e","d"," ","i","t",".">>
In_R_rapp == <<"r","a","p","p"," ","r","u","n"," ","f","i","n","i","s","h","e","d",".">>
In_R_tar ==
  <<"T","A","R"," ","s","u","m","m","a","r","y","\n","*","*","P","a","p","e","r"," ","s","e",
  "l","e","c","t","e","d",":","*","*"," ","P","1","\n","d","e","e","p","e","r"," ","i","n",
  "s","i","g","h","t","s"," ","n","e","e","d","e","d">>
In_H_journal == <<"J","o","u","r","n","a","l">>
In_H_coglog == <<"C","o","g","n","i","t","i","v","e"," ","l","o","g">>
In_BulletThought == <<"-"," ","T","h","o","u","g","h","t",":"," ">>
In_X_ok == <<"c","h","e","c","k","e","d"," ","t","h","e"," ","l","o","g","s">>
In_X_min == <<"a","b","c","d","e","f","g","h">>
In_X_seven == <<"a","b","c","d","e","f","g">>
In_X_na == <<"n","/","a">>
In_X_tick == <<"u","s","e"," ",Backtick,"t","o","p",Backtick," ","n","o","w">>
In_X_call == <<"c","a","l","l"," ","r","u","n","(",")"," ","n","o","w">>
In_X_under == <<"_","p","r","i","v","a","t","e"," ","n","o","t","e">>
In_X_colon == <<"n","o","t","e",":"," ","d","i","s","k"," ","f","u","l","l">>
In_X_pad == <<" "," ","s","p","a","c","e","d"," ","o","u","t"," "," ">>
In_U_other ==
  <<"s","u","m","m","a","r","i","s","e"," ","t","h","e"," ","r","e","p","o","r","t">>
In_R_other == <<"S","u","m","m","a","r","y"," ","w","r","i","t","t","e","n",".">>
In_Path_b == <<"/","b",".","m","d">>
In_Cmd_restart ==
  <<"s","y","s","t","e","m","c","t","l"," ","r","e","s","t","a","r","t"," ","f","o","o">>
In_Path_a == <<"/","a",".","p","y">>
In_Url_u == <<"h","t","t","p",":","/","/","u">>
In_Out_started ==
  <<"S","t","a","r","t","e","d"," ","f","o","o",".","s","e","r","v","i","c","e">>
In_Out_ok == <<"o","k">>
In_Out_error == <<"E","r","r","o","r",":"," ","x">>
In_Think_1 == <<"s","e","c","r","e","t"," ","p","l","a","n">>

\* the text of n copies of the character c
Rep(c, n) == SubSeq([i \in 1..n |-> c], 1, n)

\* the bounds of the accumulator's lists
MaxToolCalls == 1
MaxToolResults == 1
MaxThinking == 1

\* user texts: plain, with a marker of a scheduled run at the start, the same behind
\* a bracketed time stamp, with the marker '[cron:' inside, and none
UserTexts == {In_U_plain, In_U_tar, In_U_ts_tar, In_U_cron_mid, <<>>}

\* the contents X of the footer bullet '- Thought: X'; the last two are at and over
\* the cap of _parse_cognitive_log
FooterXs ==
  {In_X_ok, In_X_min, In_X_seven, In_X_na, In_X_tick, In_X_call, In_X_under,
   In_X_colon, In_X_pad, Rep("a", 420), Rep("a", 421)}

FooterHeaders == {In_H_journal, In_H_coglog}

\* a response text that ends with a footer: the header line, then the bullet
Footer(h, x) == In_R_plain \o <<NL, NL>> \o h \o <<NL>> \o In_BulletThought \o x

PlainResponses == {In_R_plain, In_R_rapp, In_R_tar}

ResponseTexts == PlainResponses \cup {Footer(In_H_journal, In_X_ok)}

ToolCallsIn ==
  {[arguments |-> [NoArgs EXCEPT !.command = In_Cmd_restart], name |-> Lit_exec],
   [arguments |-> [NoArgs EXCEPT !.path = In_Path_a], name |-> Lit_edit]}

ToolOutputs == {In_Out_started, In_Out_ok}

Timestamps == {<<"1">>}

\* the assistant contents: a text alone, a tool call alone, thinking alone, a blank
\* text, a string, and all three kinds of block together
AssistantContents ==
  {ListContent(<<TextBlock(r)>>) : r \in ResponseTexts}
  \cup {ListContent(<<ToolCallBlock(tc.name, tc.arguments)>>) : tc \in ToolCallsIn}
  \cup {ListContent(<<ThinkingBlock(In_Think_1)>>),
        ListContent(<<TextBlock(<<" ">>)>>),
        StrContent(In_R_rapp),
        ListContent(<<ThinkingBlock(In_Think_1),
                      ToolCallBlock(Lit_exec, [NoArgs EXCEPT !.command = In_Cmd_restart]),
                      TextBlock(In_R_plain)>>)}

\* the assistant contents whose text ends with a footer '- Thought: X'
FooterContents ==
  {ListContent(<<TextBlock(Footer(h, x))>>) : h \in FooterHeaders, x \in FooterXs}


(***************************************************************************)
(* db/events.py and db/prune.py: the event store                           *)
(*                                                                         *)
(* A store db is [rows, seq]: the rows of the table events, and the        *)
(* largest id the table has ever held (the AUTOINCREMENT counter).  A row  *)
(* is [id, ts, agent, type, summary, detail].  A call of append_event is   *)
(* the record of its keyword arguments.                                    *)
(***************************************************************************)
EmptyDb == [rows |-> {}, seq |-> 0]

Ids(rows) == {r.id : r \in rows}

\* the parameters of append_event, and those without a default
append_event_params == {"agent", "typ", "summary", "detail", "ts", "db_path"}
append_event_required == {"agent", "typ", "summary"}

\* id INTEGER PRIMARY KEY AUTOINCREMENT with the fault of taking the smallest id
\* that no row holds, so that the ids of deleted rows come back
NextIdReused(db) == CHOOSE i \in 1..(Cardinality(db.rows) + 1) : i \notin Ids(db.rows)

\* id INTEGER PRIMARY KEY AUTOINCREMENT: one more than the largest id ever held
NextId(db) == db.seq + 1

\* append_event(**call): Python raises TypeError when a keyword is no parameter
\* or a parameter without default is missing; else the row is inserted and
\* committed, and its id returned
append_event(db, call) ==
  IF ~(DOMAIN call \subseteq append_event_params /\ append_event_required \subseteq DOMAIN call)
  THEN [id |-> 0, db |-> db, raised |-> TRUE]
  ELSE LET id == NextId(db)
           row == [summary |-> call.summary,
                   detail |-> IF "detail" \in DOMAIN call THEN call.detail ELSE "",
                   type |-> call.typ,
                   ts |-> IF "ts" \in DOMAIN call THEN call.ts ELSE "now",
                   id |-> id,
                   agent |-> call.agent]
       IN [id |-> id, db |-> [rows |-> db.rows \cup {row},
                   seq |-> IF id > db.seq THEN id ELSE db.seq],
           raised |-> FALSE]

\* prune: SELECT id FROM events ORDER BY id DESC LIMIT 1 OFFSET keep_last, the id
\* that has keep_last larger ids; 0 when there is no such row
SelectCutoff(rows, keep) ==
  LET c == {i \in Ids(rows) : Cardinality({j \in Ids(rows) : j > i}) = keep}
  IN IF c = {} THEN 0 ELSE CHOOSE i \in c : TRUE

\* prune: the DELETE with the fault of deleting the row of the cutoff as well
DeleteUpTo(rows, cut) == {r \in rows : ~(r.id <= cut)}

\* prune: DELETE FROM events WHERE id < cutoff
DeleteOlder(rows, cut) == {r \in rows : ~(r.id < cut)}

\* prune(db_path, keep_last) with no other writer at work: the rows that it
\* leaves, and the cutoff that it returns, 0 for None
prune(rows, keep) ==
  LET done(c) == [rows |-> IF c # 0 THEN DeleteOlder(rows, c) ELSE rows, cutoff |-> c]
  IN done(SelectCutoff(rows, keep))

\* the names of the agents as texts
AgentText(a) ==
  IF a = "sol" THEN <<"s","o","l">>
  ELSE IF a = "code" THEN <<"c","o","d","e">>
  ELSE <<>>

\* a JSON string
JsonStr(t) == <<"\"">> \o t \o <<"\"">>

\* append_event: json.dumps(payload) of the row, detail being {} and the time
\* stamp being left out
detail_json(r) ==
  <<"{">> \o JsonStr(<<"t","s">>) \o <<":"," ">> \o JsonStr(<<>>) \o <<","," ">>
  \o JsonStr(<<"a","g","e","n","t">>) \o <<":"," ">> \o JsonStr(AgentText(r.agent)) \o <<","," ">>
  \o JsonStr(<<"t","y","p","e">>) \o <<":"," ">> \o JsonStr(r.type) \o <<","," ">>
  \o JsonStr(<<"s","u","m","m","a","r","y">>) \o <<":"," ">> \o JsonStr(r.summary) \o <<","," ">>
  \o JsonStr(<<"d","e","t","a","i","l">>) \o <<":"," ","{","}","}">>

\* x LIKE '%text%', which does not tell the case of ASCII letters
Like(x, text) == Contains(Lower(x), Lower(text))

\* query_events: the WHERE clause; a filter that is None or empty is left out
Where(r, agent, typ, text) ==
  /\ (agent # "" => r.agent = agent)
  /\ (Truthy(typ) => r.type = typ)
  /\ (Truthy(text) => IF Like(r.summary, text) THEN TRUE ELSE Like(detail_json(r), text))

\* ORDER BY id with the fault of giving the rows with the smallest ids first
RECURSIVE OrderAscLimit(_, _)
OrderAscLimit(S, n) ==
  IF S = {} \/ n = 0 THEN <<>>
  ELSE LET m == CHOOSE r \in S : \A q \in S : q.id >= r.id
       IN <<m>> \o OrderAscLimit(S \ {m}, n - 1)

\* query_events: ORDER BY id DESC LIMIT n of the rows S, n being no negative number
RECURSIVE OrderDescLimit(_, _)
OrderDescLimit(S, n) ==
  IF S = {} \/ n = 0 THEN <<>>
  ELSE LET m == CHOOSE r \in S : \A q \in S : q.id <= r.id
       IN <<m>> \o OrderDescLimit(S \ {m}, n - 1)

\* query_events(limit, agent, typ, text) on the rows of the table
query_events(table, limit, agent, typ, text) ==
  OrderDescLimit({r \in table : Where(r, agent, typ, text)}, limit)

(***************************************************************************)
(* openclaw_tailer.py: session files                                       *)
(*                                                                         *)
(* A session file is a sequence of bytes.  The records that the sessions   *)
(* write are those of Recs.  json.dumps(Recs[k]) takes two bytes, 2k-1 and *)
(* 2k: the first and the second half of the JSON object; the byte 0 is the *)
(* line feed.                                                              *)
(***************************************************************************)
SessionFiles == {"A", "B"}

\* a user text that names the agent 'code'
In_U_code_agent ==
  <<"a","s","k"," ","t","h","e"," ","c","o","d","e"," ","a","g","e","n","t">>

Recs ==
  <<UserRecord(<<"1">>, StrContent(In_U_plain)),
    AssistantRecord(<<"1">>,
      ListContent(<<ToolCallBlock(Lit_exec, [NoArgs EXCEPT !.command = In_Cmd_restart]),
                    TextBlock(In_R_plain)>>)),
    UserRecord(<<"1">>, StrContent(In_U_other)),
    AssistantRecord(<<"1">>,
      ListContent(<<ToolCallBlock(Lit_edit, [NoArgs EXCEPT !.path = In_Path_b]),
                    TextBlock(In_R_other)>>)),
    UserRecord(<<"2">>, StrContent(In_U_code_agent))>>

NumRecs == Len(Recs)

\* the records that each session writes, in order
Script == [A |-> <<1, 2>>, B |-> <<3>>]

NLByte == 0

\* the one byte of a line that is a JSON document and no object, such as 0
ScalarByte == 99

Dumps(k) == <<2 * k - 1, 2 * k>>

\* json.loads(line): the index in Recs of the record, -1 for a document that is
\* no object, 0 when it raises.  White space around the document is accepted; a
\* proper prefix or suffix of an object is no JSON document, and neither is an
\* empty line.
json_loads(line) ==
  LET one(ks) == IF ks = {} THEN 0 ELSE CHOOSE k \in ks : TRUE
      parse(body) == IF body = <<ScalarByte>> THEN -1
                     ELSE one({k \in 1..NumRecs : body = Dumps(k)})
  IN parse(IF line # <<>> /\ line[Len(line)] = NLByte
           THEN SubSeq(line, 1, Len(line) - 1) ELSE line)

\* f.readline() with the fault of going on after max_lines lines
RECURSIVE ReadLinesUncapped(_, _, _)
ReadLinesUncapped(rest, n, max_lines) ==
  LET more(line) == <<line>> \o ReadLinesUncapped(Drop(rest, Len(line)), n + 1, max_lines)
      upto(i) == more(IF i = 0 THEN rest ELSE SubSeq(rest, 1, i))
  IN IF rest = <<>> THEN <<>> ELSE upto(Find(rest, <<NLByte>>))

\* f.readline() n more times at most, on what is left of the file
RECURSIVE ReadLines(_, _, _)
ReadLines(rest, n, max_lines) ==
  LET more(line) ==
        <<line>> \o (IF n + 1 >= max_lines THEN <<>>
                     ELSE ReadLines(Drop(rest, Len(line)), n + 1, max_lines))
      upto(i) == more(IF i = 0 THEN rest ELSE SubSeq(rest, 1, i))
  IN IF rest = <<>> THEN <<>> ELSE upto(Find(rest, <<NLByte>>))

\* a byte that is part of no UTF-8 sequence, and the carriage return
BadByte == 98
CRByte == 97

\* bytes.decode('utf-8', errors='ignore'): the bytes that are no UTF-8 are left
\* out.  A character of the model is the byte that encodes it.
decode_ignore(bytes) == SelectSeq(bytes, LAMBDA b : b # BadByte)

\* the text mode of open(): a carriage return and the line feed after it are read
\* as one line feed, and a carriage return alone as a line feed
universal_newlines(text) ==
  LET kept == SelectSeq([i \in 1..Len(text) |-> i],
                        LAMBDA i : ~(text[i] = NLByte /\ i > 1 /\ text[i - 1] = CRByte))
  IN [j \in 1..Len(kept) |-> IF text[kept[j]] = CRByte THEN NLByte ELSE text[kept[j]]]

\* str.encode('utf-8', errors='ignore'): a decoded text has no character that
\* cannot be encoded
encode_ignore(text) == SelectSeq(text, LAMBDA c : c # BadByte)

\* _tail_new_lines(path, start_pos, max_lines) on the bytes of the file
_tail_new_lines(content, start_pos, max_lines) ==
  ReadLines(universal_newlines(decode_ignore(Drop(content, start_pos))), 0, max_lines)

\* the caps of the tailer
MaxLinesPerPoll == 500
DetectLastLine == 20
ContentCap == 500
DetailsCap == 12000
StreamFallbackCap == 2000
AgentListCap == 2000
StreamCap == 800
ImprovementsCap == 300
ImprovementTitleCap == 100
ImprovementContentCap == 300
DbSummaryCap == 200
DbDetailCap == 8000

AgentMark_agent == <<"a","g","e","n","t">>
AgentMark_portal_architect ==
  <<"p","o","r","t","a","l","-","a","r","c","h","i","t","e","c","t">>
AgentMark_code_agent == <<"c","o","d","e","-","a","g","e","n","t">>
AgentMark_code_agent_sp == <<"c","o","d","e"," ","a","g","e","n","t">>
AgentMark_planner == <<"p","l","a","n","n","e","r">>
AgentMark_reviewer == <<"r","e","v","i","e","w","e","r">>
AgentMark_researcher == <<"r","e","s","e","a","r","c","h","e","r">>
AgentMark_improvement == <<"i","m","p","r","o","v","e","m","e","n","t">>

\* _detect_agent_from_session: the texts of the blocks of type 'text', as they are
RECURSIVE RawBlockTexts(_)
RawBlockTexts(bs) ==
  IF bs = <<>> THEN <<>>
  ELSE (IF bs[1].type = "text" THEN <<OrEmpty(bs[1].text)>> ELSE <<>>)
       \o RawBlockTexts(Tail(bs))

\* _detect_agent_from_session: the agent that the text names, "" for none
AgentOfText(low) ==
  IF Contains(low, AgentMark_portal_architect) THEN "portal-architect"
  ELSE IF Contains(low, AgentMark_code_agent) \/ Contains(low, AgentMark_code_agent_sp)
  THEN "code"
  ELSE IF Contains(low, AgentMark_planner) /\ Contains(low, AgentMark_agent) THEN "planner"
  ELSE IF Contains(low, AgentMark_reviewer) /\ Contains(low, AgentMark_agent) THEN "reviewer"
  ELSE IF Contains(low, AgentMark_researcher) /\ Contains(low, AgentMark_agent)
  THEN "researcher"
  ELSE ""

RECURSIVE DetectLoop(_, _)
DetectLoop(lines, i) ==
  LET named(a) == IF a # "" THEN a ELSE DetectLoop(lines, i + 1)
      content(c) ==
        IF c.kind \notin {"str", "list"} THEN DetectLoop(lines, i + 1)
        ELSE named(AgentOfText(Lower(IF c.kind = "str" THEN c.str
                                     ELSE Join(RawBlockTexts(c.blocks), <<" ">>))))
      record(obj) ==
        IF ~obj.has_message THEN DetectLoop(lines, i + 1) ELSE content(obj.content)
      parsed(k) == IF k <= 0 THEN DetectLoop(lines, i + 1) ELSE record(Recs[k])
  IN IF i > Len(lines) \/ i - 1 > DetectLastLine THEN "sol"
     ELSE parsed(json_loads(lines[i]))

\* _detect_agent_from_session(path) on the bytes of the file
_detect_agent_from_session(content) ==
  DetectLoop(_tail_new_lines(content, 0, DetectLastLine + 2), 1)

\* xs[-n:] with the fault of keeping the first n elements
FirstNKept(xs, n) == IF Len(xs) <= n THEN xs ELSE SubSeq(xs, 1, n)

\* xs[-n:]
LastN(xs, n) == IF Len(xs) <= n THEN xs ELSE SubSeq(xs, Len(xs) - n + 1, Len(xs))

\* load_dashboard(path) when there is no file: the agents have no entries
NewDashboard ==
  [worklog |-> <<>>,
   agents |-> [a \in {"search", "verify", "summarize", "security", "sol"} |-> <<>>], thoughts |-> <<>>, improvements |-> <<>>]

\* the kinds that append_sol copies to the stream 'thoughts'
ThoughtStreamTypes ==
  {Lit_thought, Lit_idea, Lit_plan, Lit_reflection, Lit_decision, Lit_risk,
   Lit_insight, Lit_highlight}

\* append_sol: the arguments of its call of append_event, with the fault of
\* passing the texts as they are
StoreCallUncapped(typ, content, detail_text, agent) ==
  [typ |-> typ, summary |-> content, detail |-> "openclaw_tailer", ts |-> "now",
   agent |-> agent, detail_text |-> detail_text]

\* append_sol: the arguments of its call of append_event
StoreCall(typ, content, detail_text, agent) ==
  [typ |-> typ, summary |-> Take(content, DbSummaryCap), detail |-> "openclaw_tailer",
   ts |-> "now", agent |-> agent, detail_text |-> Take(detail_text, DbDetailCap)]

\* append_sol(d, typ, content, detail_text, agent) on the dashboard data st.d and
\* the event store st.db.  The time stamps of the entries are left out.  st.raised
\* counts the calls of append_event that raised, st.logged the failures that the
\* tailer reported: 'except Exception: pass' reports none.
append_sol(st, typ, content, detail_text, agent) ==
  LET entry == [content |-> Take(content, ContentCap),
                type |-> typ,
                details |-> IF detail_text # <<>> THEN Take(detail_text, DetailsCap)
                            ELSE <<>>]
      old(d) == IF agent \in DOMAIN d.agents THEN d.agents[agent] ELSE <<>>
      agents1(d) == [a \in DOMAIN d.agents \cup {agent} |->
                      IF a = agent THEN LastN(Append(old(d), entry), AgentListCap)
                      ELSE d.agents[a]]
      streams(d, item, stored) ==
        [d |-> [worklog |-> IF typ = Lit_worklog
                            THEN LastN(Append(d.worklog, item), StreamCap)
                            ELSE d.worklog,
                agents |-> agents1(d),
                thoughts |-> IF typ \in ThoughtStreamTypes
                             THEN LastN(Append(d.thoughts, item), StreamCap)
                             ELSE d.thoughts,
                improvements |->
                  IF typ = AgentMark_improvement
                  THEN LastN(Append(d.improvements,
                                    [content |-> IF Take(detail_text, StreamFallbackCap) # <<>>
                                                 THEN Take(detail_text, StreamFallbackCap)
                                                 ELSE Take(content, ImprovementContentCap),
                                     detail_text |-> item.detail_text,
                                     title |-> Take(content, ImprovementTitleCap)]),
                             ImprovementsCap)
                  ELSE d.improvements],
         db |-> stored.db,
         raised |-> IF stored.raised THEN st.raised + 1 ELSE st.raised,
         logged |-> st.logged]
  IN streams(st.d,
             [content |-> Take(content, ContentCap),
              type |-> typ,
              detail_text |-> IF detail_text # <<>> THEN Take(detail_text, DetailsCap)
                              ELSE Take(content, StreamFallbackCap)],
             \* try: append_event(...) except Exception: pass
             append_event(st.db, StoreCall(typ, content, detail_text, agent)))

\* main with the fault of calling append_sol for the events of ev from the last to
\* the first
RECURSIVE AppendAllReversed(_, _, _, _)
AppendAllReversed(st, ev, i, agent) ==
  IF i > Len(ev) THEN st
  ELSE AppendAllReversed(append_sol(st, ev[Len(ev) + 1 - i].typ, ev[Len(ev) + 1 - i].summary,
                                    ev[Len(ev) + 1 - i].detail, agent),
                         ev, i + 1, agent)

\* main: append_sol for each event of ev, in order
RECURSIVE AppendAll(_, _, _, _)
AppendAll(st, ev, i, agent) ==
  IF i > Len(ev) THEN st
  ELSE AppendAll(append_sol(st, ev[i].typ, ev[i].summary, ev[i].detail, agent),
                 ev, i + 1, agent)

\* the offsets of no file
NoOffsets == [f \in {} |-> 0]

\* pos_map.get(key, 0)
OffsetOf(m, key) == IF key \in DOMAIN m THEN m[key] ELSE 0

\* pos_map[key] = pos
WithOffset(m, key, pos) == [f \in DOMAIN m \cup {key} |-> IF f = key THEN pos ELSE m[f]]

Digits == <<"0", "1", "2", "3", "4", "5", "6", "7", "8", "9">>

\* json.dumps of an int that is not negative, with the fault of writing its last
\* digit only
int_str_last(n) == <<Digits[(n % 10) + 1]>>

\* json.dumps of an int that is not negative: its decimal digits
RECURSIVE int_str(_)
int_str(n) ==
  IF n < 10 THEN <<Digits[n + 1]>> ELSE int_str(n \div 10) \o <<Digits[(n % 10) + 1]>>

\* json.loads of the decimal digits of an int
RECURSIVE str_int(_)
str_int(t) ==
  LET value(c) == CHOOSE d \in 0..9 : Digits[d + 1] = c
  IN IF Len(t) = 1 THEN value(t[1])
     ELSE 10 * str_int(SubSeq(t, 1, Len(t) - 1)) + value(t[Len(t)])

\* The state file is [state, files] at least.  state is "missing" when there is no
\* file, "empty" when it holds no byte, "scalar" when it holds a JSON document
\* that is no object, "written" when it holds an object with the member 'files',
\* and "legacy" when it holds an object without it; files are the members of
\* 'files', each <<key, the text of its number>>.  A legacy file has last_file,
\* "" when the member is null or not there, and last_pos, the text of its number,
\* <<>> when the member is null or not there.
NoStateFile == [files |-> {}, state |-> "missing"]

\* _save_tailer_state(state_path, pos_map): what write_text has written
_save_tailer_state(m) ==
  [files |-> {<<k, int_str(m[k])>> : k \in DOMAIN m}, state |-> "written"]

\* _load_tailer_state(state_path)['files']: json.loads raises on a file that is no
\* JSON, and st.get on a document that is no object; both are caught
_load_tailer_state(sf) ==
  IF sf.state = "written"
  THEN [k \in {m[1] : m \in sf.files} |-> str_int((CHOOSE m \in sf.files : m[1] = k)[2])]
  ELSE IF sf.state = "legacy"
  THEN IF sf.last_file # ""
       THEN [k \in {sf.last_file} |-> IF sf.last_pos # <<>> THEN str_int(sf.last_pos) ELSE 0]
       ELSE NoOffsets
  ELSE NoOffsets

\* main: the body of 'for line in _tail_new_lines(...)' from line i of lines on.
\* st is [acc, d, db, raised, logged, last_pos, out, aborted]: the accumulator, the
\* dashboard data, the event store, the failures of the store and those reported,
\* last_pos, for each line that is a record where the line starts and ends, the
\* record and its events, and whether event_summary raised, which ends main:
\* obj.get raises AttributeError on a document that is no object, outside the try.
RECURSIVE TailLoop(_, _, _, _)
TailLoop(st, lines, i, agent) ==
  LET pos1 == st.last_pos + Len(encode_ignore(lines[i]))
      appended(r, k, s1) ==
        TailLoop([out |-> Append(st.out, [from |-> st.last_pos, ev |-> r.ev, to |-> pos1,
                                          rec |-> k]),
                  d |-> s1.d, acc |-> r.acc, db |-> s1.db,
                  raised |-> s1.raised, logged |-> s1.logged,
                  last_pos |-> pos1, aborted |-> FALSE],
                 lines, i + 1, agent)
      summarised(r, k) ==
        appended(r, k, IF r.ev # <<>>
                       THEN AppendAll([d |-> st.d, db |-> st.db, raised |-> st.raised,
                                       logged |-> st.logged], r.ev, 1, agent)
                       ELSE [d |-> st.d, db |-> st.db, raised |-> st.raised,
                             logged |-> st.logged])
      parsed(k) ==
        IF k = 0 THEN TailLoop([st EXCEPT !.last_pos = pos1], lines, i + 1, agent)
        ELSE IF k < 0 THEN [st EXCEPT !.last_pos = pos1, !.aborted = TRUE]
        ELSE summarised(event_summary(st.acc, Recs[k]), k)
  IN IF i > Len(lines) THEN st ELSE parsed(json_loads(lines[i]))

(***************************************************************************)
(* State                                                                   *)
(***************************************************************************)
VARIABLES
  ACC,         \* the module's accumulator ACC
  batch,       \* what the last direct call of event_summary returned
  fed,         \* the record of the last direct call of event_summary
  files,       \* the bytes of each session file
  mtime_order, \* the session files, the one modified last first
  pos_map,     \* main: pos_map
  state_file,  \* the state file of the tailer
  pc,          \* main: where the loop stands
  todo,        \* main: the files of this pass that are still to be read
  dashboard,   \* the dashboard data file
  last,        \* what the last reading of a file did
  persisted,   \* the offsets that the last completed _save_tailer_state wrote
  crashes,     \* how often the tailer was killed and started again
  truncs,      \* how often a session file was truncated
  transients,  \* how often a file held a foreign line or could not be read
  first,       \* for each record, the events that its first reading gave
  stop,        \* what the last kill of the tailer found, and what the start loaded
  shrunk,      \* the files found shorter than their offset since the last save
  rows,        \* the rows of the table events
  seq,         \* the largest id that the table events has ever held
  prune_pc,    \* prune: where it stands
  keep_last,   \* prune: keep_last
  cutoff,      \* prune: cutoff
  snap,        \* the ids of the rows when prune read its cutoff
  late,        \* the ids of the rows inserted since prune read its cutoff
  answer,      \* the arguments of the last call of query_events and what it returned
  disk,        \* the session directories, the arguments that name them, and the time
  found        \* what the last call of _iter_session_files returned

accVars == <<ACC, batch, fed>>
tailVars ==
  <<files, mtime_order, pos_map, state_file, pc, todo, dashboard, last, persisted,
    crashes, truncs, transients, first, stop, shrunk>>
storeVars == <<rows, seq>>
pruneVars == <<prune_pc, keep_last, cutoff, snap, late>>
queryVars == <<answer>>
discVars == <<disk, found>>
vars == <<accVars, tailVars, storeVars, pruneVars, queryVars, discVars>>

\* what the last reading of a file did, before any reading
NoPoll ==
  [lines |-> <<>>, out |-> <<>>, start |-> 0, raised |-> 0, logged |-> 0, aborted |-> FALSE,
   op |-> "none", file |-> "", stored0 |-> 0, size0 |-> 0, stored1 |-> 0,
   resume |-> -1]

\* no record has been read
NothingDerived == [k \in 1..NumRecs |-> <<>>]

\* the tailer has not been killed
NoStop == [at |-> "none", pos |-> NoOffsets, prev |-> NoOffsets, loaded |-> NoOffsets]

\* first, once the lines of out from entry i on are read
RECURSIVE FirstDerived(_, _, _)
FirstDerived(fst, out, i) ==
  IF i > Len(out) THEN fst
  ELSE FirstDerived(IF fst[out[i].rec] = <<>>
                    THEN [fst EXCEPT ![out[i].rec] = <<out[i].ev>>] ELSE fst,
                    out, i + 1)

\* the record of the last call, before any call
NothingFed == OtherRecord(<<"0">>)

AccStart ==
  /\ ACC = reset
  /\ batch = <<>>
  /\ fed = NothingFed

TailStart ==
  /\ files = [f \in SessionFiles |-> <<>>]
  /\ mtime_order = <<"A", "B">>
  /\ pos_map = _load_tailer_state(NoStateFile)
  /\ state_file = NoStateFile
  /\ pc = "start"
  /\ todo = <<>>
  /\ dashboard = NewDashboard
  /\ last = NoPoll
  /\ persisted = NoOffsets
  /\ crashes = 0
  /\ truncs = 0
  /\ transients = 0
  /\ first = NothingDerived
  /\ stop = NoStop
  /\ shrunk = {}

StoreStart ==
  /\ rows = EmptyDb.rows
  /\ seq = EmptyDb.seq

PruneStart ==
  /\ prune_pc = "idle"
  /\ keep_last = 0
  /\ cutoff = 0
  /\ snap = {}
  /\ late = {}

\* no call of query_events yet
NoAnswer == [out |-> <<>>, typ |-> <<>>, text |-> <<>>, agent |-> "", limit |-> 0]

QueryStart == answer = NoAnswer

\* no session directory, and no call of _iter_session_files
NoDisk == [dirs |-> <<>>, glob |-> <<>>, arg |-> 0, now |-> 0]
NotFound == [files |-> <<>>, ran |-> FALSE]

DiscStart == disk = NoDisk /\ found = NotFound

(***************************************************************************)
(* The accumulator alone: records fed to event_summary one after another   *)
(***************************************************************************)
AccInit == AccStart /\ TailStart /\ StoreStart /\ PruneStart /\ QueryStart /\ DiscStart

\* the lists of the accumulator stay within the bounds
WithinBounds(acc) ==
  /\ Len(acc.tool_calls) <= MaxToolCalls
  /\ Len(acc.tool_results) <= MaxToolResults
  /\ Len(acc.thinking) <= MaxThinking

\* the call event_summary(obj) has returned r
Fed(obj, r) ==
  /\ WithinBounds(r.acc)
  /\ ACC' = r.acc
  /\ batch' = r.ev
  /\ fed' = obj
  /\ UNCHANGED <<tailVars, storeVars, pruneVars, queryVars, discVars>>

Feed(obj) == Fed(obj, event_summary(ACC, obj))

FeedUser == \E ts \in Timestamps, t \in UserTexts : Feed(UserRecord(ts, StrContent(t)))

FeedAssistant == \E c \in AssistantContents : Feed(AssistantRecord(<<"1">>, c))

FeedToolResult == \E o \in ToolOutputs : Feed(ToolResultRecord(<<"1">>, Lit_exec, o))

\* a record without a message
NoMessage == OtherRecord(<<"1">>)

FeedOther == Feed(NoMessage)

AccNext == FeedUser \/ FeedAssistant \/ FeedToolResult \/ FeedOther

SpecAcc == AccInit /\ [][AccNext]_vars

(***************************************************************************)
(* The footer of a response: one turn, whose response ends with the footer *)
(* '- Thought: X'                                                          *)
(***************************************************************************)
CogInit ==
  /\ \E t \in UserTexts : ACC = add_user(reset, <<"1">>, t)
  /\ batch = <<>>
  /\ fed = NothingFed
  /\ TailStart /\ StoreStart /\ PruneStart /\ QueryStart /\ DiscStart

FeedFooter ==
  /\ fed.role # "assistant"
  /\ \E c \in FooterContents : Feed(AssistantRecord(<<"1">>, c))

CogNext == FeedFooter

SpecCog == CogInit /\ [][CogNext]_vars

(***************************************************************************)
(* One turn in progress: the accumulator holds a user text and the tool    *)
(* calls read so far, and the next records of the turn are read            *)
(***************************************************************************)
In_Cmd_push == <<"g","i","t"," ","p","u","s","h"," ","o","r","i","g","i","n"," ","m","a","i","n">>
In_Cmd_status == <<"s","y","s","t","e","m","c","t","l"," ","s","t","a","t","u","s"," ","f","o","o">>
In_Cmd_ls == <<"l","s"," ","-","l","a">>
In_Out_stopped == <<"S","t","o","p","p","e","d"," ","f","o","o",".","s","e","r","v","i","c","e">>
In_Out_refused == <<"C","o","n","n","e","c","t","i","o","n"," ","r","e","f","u","s","e","d">>
In_Out_connected == <<"C","o","n","n","e","c","t","e","d"," ","t","o"," ","d","b">>

\* the length of the lists of tool calls that a turn starts with
MaxCalls == 2

Call(name, args) == [arguments |-> args, name |-> name]

Call_restart == Call(Lit_exec, [NoArgs EXCEPT !.command = In_Cmd_restart])
Call_push == Call(Lit_exec, [NoArgs EXCEPT !.command = In_Cmd_push])
Call_status == Call(Lit_exec, [NoArgs EXCEPT !.command = In_Cmd_status])
Call_ls == Call(Lit_exec, [NoArgs EXCEPT !.command = In_Cmd_ls])
Call_edit == Call(Lit_edit, [NoArgs EXCEPT !.path = In_Path_a])

\* tool calls: three that give a line of worklog each, one exec that gives none,
\* and an edit of a file
TurnCalls == {Call_restart, Call_push, Call_status, Call_ls, Call_edit}

CallLists == UNION {[1..n -> TurnCalls] : n \in 0..MaxCalls}

CallBlock(c) == ToolCallBlock(c.name, c.arguments)

\* assistant contents without response text: one tool call, two tool calls in
\* either order, a tool call after thinking, and a tool call with a blank text
CallContents ==
  {ListContent(<<CallBlock(c)>>) : c \in TurnCalls}
  \cup {ListContent(<<CallBlock(Call_status), CallBlock(Call_edit)>>),
        ListContent(<<CallBlock(Call_edit), CallBlock(Call_status)>>),
        ListContent(<<ThinkingBlock(In_Think_1), CallBlock(Call_push)>>),
        ListContent(<<CallBlock(Call_ls), TextBlock(<<" ">>)>>)}

\* tool outputs: of each kind that add_tool_result tells apart
TurnOutputs ==
  {In_Out_started, In_Out_ok, In_Out_error, In_Out_stopped, In_Out_refused,
   In_Out_connected}

TurnResponses == {In_R_plain}

\* a summary of a scheduled run with every section that the derivation reads
In_R_tar_full ==
  <<"T","A","R"," ","s","u","m","m","a","r","y","\n","*","*","P","a","p","e","r"," ","s",
  "e","l","e","c","t","e","d",":","*","*"," ","P","1","\n","*","*","K","e","y"," ","i","n",
  "s","i","g","h","t","s"," ","e","x","t","r","a","c","t","e","d",":","*","*","\n","1",".",
  " ","*","*","A","*","*"," ","-"," ","o","n","e","\n","2","."," ","*","*","B","*","*"," ",
  "-"," ","t","w","o","\n","3","."," ","*","*","C","*","*"," ","-"," ","t","h","r","e","e",
  "\n","*","*","P","i","t","c","h",":","*","*"," ","g","o","\n","*","*","D","a","s","h","b",
  "o","a","r","d"," ","c","h","a","n","g","e","s"," ","s","u","g","g","e","s","t","e","d",
  ":","*","*","\n","-"," ","a","d","d"," ","c","h","a","r","t","\n","d","e","e","p","e","r",
  " ","i","n","s","i","g","h","t","s"," ","n","e","e","d","e","d">>

\* n bullets '- Thought: abcdefgh', each on a line of its own
RECURSIVE Bullets(_)
Bullets(n) ==
  IF n = 0 THEN <<>> ELSE <<NL>> \o In_BulletThought \o In_X_min \o Bullets(n - 1)

\* the number of bullets of the longest footer: one more than build_events takes
MaxBullets == 13

\* the response text t, then a footer with n bullets
WithFooter(t, n) == t \o <<NL, NL>> \o In_H_journal \o Bullets(n)

\* the response text t, then a footer whose one bullet is a placeholder
WithEmptyFooter(t) == t \o <<NL, NL>> \o In_H_journal \o <<NL>> \o In_BulletThought \o In_X_na

\* reports: the summary of a scheduled run alone, with a footer, and with a footer
\* that has no entry; a report of a research run; and a text with a long footer
Reports ==
  {In_R_tar_full, WithFooter(In_R_tar, 1), WithEmptyFooter(In_R_tar), In_R_rapp,
   WithFooter(In_R_plain, MaxBullets)}

TurnInit ==
  /\ \E t \in {In_U_plain, In_U_tar, In_U_ts_tar}, cs \in CallLists :
       ACC = [add_user(reset, <<"1">>, t) EXCEPT !.tool_calls = cs]
  /\ batch = <<>>
  /\ fed = NothingFed
  /\ TailStart /\ StoreStart /\ PruneStart /\ QueryStart /\ DiscStart

\* the call event_summary(obj) has returned r
Returned(obj, r) ==
  /\ ACC' = r.acc
  /\ batch' = r.ev
  /\ fed' = obj
  /\ UNCHANGED <<tailVars, storeVars, pruneVars, queryVars, discVars>>

Read(obj) == Returned(obj, event_summary(ACC, obj))

\* the assistant calls tools
FeedCalls ==
  /\ fed = NothingFed
  /\ \E c \in CallContents : Read(AssistantRecord(<<"1">>, c))

\* a tool returns its output
FeedResult ==
  /\ fed = NothingFed
  /\ \E o \in TurnOutputs : Read(ToolResultRecord(<<"1">>, Lit_exec, o))

\* the assistant answers
FeedResponse ==
  /\ batch = <<>>
  /\ \E t \in TurnResponses : Read(AssistantRecord(<<"1">>, ListContent(<<TextBlock(t)>>)))

\* the assistant answers at once, with a report
FeedReport ==
  /\ fed = NothingFed
  /\ \E t \in Reports : Read(AssistantRecord(<<"1">>, ListContent(<<TextBlock(t)>>)))

\* the assistant answers once more, no user message being in between
SecondResponse == AssistantRecord(<<"1">>, ListContent(<<TextBlock(In_R_other)>>))

FeedSecond ==
  /\ batch # <<>>
  /\ fed # SecondResponse
  /\ Read(SecondResponse)

TurnNext == FeedCalls \/ FeedResult \/ FeedResponse \/ FeedReport \/ FeedSecond

SpecTurn == TurnInit /\ [][TurnNext]_vars

(***************************************************************************)
(* Properties of the accumulator                                           *)
(***************************************************************************)
\* the texts that the content of a record carries
TextsOf(content) ==
  IF content.kind = "str" THEN {content.str}
  ELSE {content.blocks[i].text :
          i \in {j \in 1..Len(content.blocks) : content.blocks[j].type = "text"}}

\* the record is an assistant message with response text
CarriesText(obj) ==
  obj.role = "assistant" /\ \E t \in TextsOf(obj.content) : Strip(t) # <<>>

CognitiveKinds ==
  {Lit_thought, Lit_idea, Lit_plan, Lit_reflection, Lit_decision, Lit_risk,
   Lit_insight, Lit_highlight}

\* the events of the kind typ in the last batch
OfKind(typ) == SelectSeq(batch, LAMBDA e : e.typ = typ)

\* the cognitive events of the last batch
CognitiveEvents == SelectSeq(batch, LAMBDA e : e.typ \in CognitiveKinds)

\* C2: an assistant record with response text gives a batch with exactly one
\* activity event, which is the last event of the batch
C2_AlwaysOneActivity ==
  CarriesText(fed) =>
    /\ Len(batch) >= 1
    /\ batch[Len(batch)].typ = Lit_activity
    /\ Len(OfKind(Lit_activity)) = 1

\* C2: a batch with a cognitive event, a worklog event and the activity event, of a
\* turn with a tool call, a tool result and a thinking excerpt
C2_Witness ==
  /\ CarriesText(fed)
  /\ Len(CognitiveEvents) >= 1
  /\ Len(OfKind(Lit_worklog)) >= 1
  /\ Len(OfKind(Lit_activity)) = 1
  /\ ACC.tool_calls # <<>>
  /\ ACC.tool_results # <<>>
  /\ ACC.thinking # <<>>

\* the text has a line that is the header of a footer
HeaderLine(text) ==
  \E i \in 1..Len(SplitLines(text)) :
    Lower(Strip(SplitLines(text)[i])) \in {Lower(In_H_journal), Lower(In_H_coglog)}

\* the text carries a marker of a scheduled run: '[cron:' anywhere, or 'tar task'
\* or 'research task' at its start
CarriesMarker(t) ==
  \/ Contains(Lower(t), Lit_cron)
  \/ StartsWith(Lower(t), Lit_tar_task)
  \/ StartsWith(Lower(t), Lit_research_task)

\* the text without a leading bracketed prefix '[...]' that closes within its
\* first 64 characters, and without the white space around the prefix
WithoutLeadingBracket(t) ==
  LET u == LStrip(t)
  IN IF u # <<>> /\ u[1] = "[" /\ \E i \in 1..64 : i <= Len(u) /\ u[i] = "]"
     THEN LStrip(Drop(u, CHOOSE i \in 1..Len(u) :
                            u[i] = "]" /\ \A j \in 1..(i - 1) : u[j] # "]"))
     ELSE u

\* C3 as stated: a completed turn whose response has no header line and whose
\* user text carries no marker of a scheduled run gives no cognitive event
C3_NoInferredCognition_AsStated ==
  (CarriesText(fed) /\ ~HeaderLine(ACC.response_text) /\ ~CarriesMarker(ACC.user_text))
    => Len(CognitiveEvents) = 0

\* C3: a completed turn whose response has no header line and whose user text,
\* after its leading bracketed prefix is removed, carries no marker of a scheduled
\* run gives no cognitive event, whatever tool calls, tool results and thinking
\* excerpts were accumulated
C3_NoInferredCognition ==
  (/\ CarriesText(fed)
   /\ ~HeaderLine(ACC.response_text)
   /\ ~CarriesMarker(WithoutLeadingBracket(ACC.user_text)))
    => Len(CognitiveEvents) = 0

\* C3: such a turn, with a response that reports a scheduled run, and with a tool
\* call, a tool result and a thinking excerpt accumulated
C3_Witness ==
  /\ CarriesText(fed)
  /\ ACC.response_text = In_R_tar
  /\ ACC.user_text = In_U_plain
  /\ ~CarriesMarker(WithoutLeadingBracket(ACC.user_text))
  /\ ACC.tool_calls # <<>>
  /\ ACC.tool_results # <<>>
  /\ ACC.thinking # <<>>
  /\ Len(batch) >= 1

(***************************************************************************)
(* Properties of the footer                                                *)
(***************************************************************************)
ThoughtCap == 420

\* the X of the bullet '- Thought: X' of the record fed
FooterX == AfterFirst(fed.content.blocks[1].text, In_BulletThought)

\* X cut to the cap: 419 characters and an ellipsis when X has more than 420
Capped(x) == IF Len(x) <= ThoughtCap THEN x ELSE Take(x, ThoughtCap - 1) \o <<Ellipsis>>

\* X looks like code: a backquote or '()' in it, or an underscore at its start
CodeLike(x) ==
  \/ Contains(x, <<Backtick>>)
  \/ Contains(x, <<"(", ")">>)
  \/ (x # <<>> /\ x[1] = "_")

\* C4 as stated: a footer with the bullet '- Thought: X', X of 8 characters or more
\* and no placeholder, gives exactly one thought event, whose content is X cut to
\* the cap
C4_RoundTrip_AsStated ==
  (fed.role = "assistant" /\ Len(FooterX) >= 8 /\ Lower(Strip(FooterX)) \notin CogPlaceholders)
    => (Len(OfKind(Lit_thought)) = 1 /\ OfKind(Lit_thought)[1].summary = Capped(FooterX))

\* C4: a footer with the bullet '- Thought: X', X of 8 characters or more, with no
\* white space around it, no placeholder and not looking like code, gives exactly
\* one thought event, whose content is X cut to the cap
C4_RoundTrip ==
  (/\ fed.role = "assistant"
   /\ Len(FooterX) >= 8
   /\ FooterX = Strip(FooterX)
   /\ Lower(FooterX) \notin CogPlaceholders
   /\ ~CodeLike(FooterX))
    => (Len(OfKind(Lit_thought)) = 1 /\ OfKind(Lit_thought)[1].summary = Capped(FooterX))

\* C4: the footer whose X is one character over the cap gave its thought event
C4_Witness ==
  /\ fed.role = "assistant"
  /\ FooterX = Rep("a", ThoughtCap + 1)
  /\ Len(OfKind(Lit_thought)) = 1
  /\ Len(OfKind(Lit_thought)[1].summary) = ThoughtCap

(***************************************************************************)
(* The event store alone: callers of append_event, and prune, whose SELECT *)
(* and DELETE are two statements that other connections can come between   *)
(***************************************************************************)
MaxEvents == 4
MaxKeep == 2

StoreAgents == {"sol", "code"}
StoreTypes == {Lit_activity, Lit_worklog}

DbInit == AccStart /\ TailStart /\ StoreStart /\ PruneStart /\ QueryStart /\ DiscStart

AppendEvent ==
  /\ seq < MaxEvents
  /\ \E a \in StoreAgents, t \in StoreTypes :
       LET r == append_event([rows |-> rows, seq |-> seq],
                             [typ |-> t, summary |-> In_R_plain, agent |-> a])
       IN /\ ~r.raised
          /\ rows' = r.db.rows
          /\ seq' = r.db.seq
          /\ late' = IF prune_pc = "selected" THEN late \cup {r.id} ELSE late
  /\ UNCHANGED <<accVars, tailVars, prune_pc, keep_last, cutoff, snap, queryVars, discVars>>

\* prune: the SELECT, and the return of None when it gives no row
PruneSelect ==
  /\ prune_pc = "idle"
  /\ \E n \in 0..MaxKeep :
       /\ keep_last' = n
       /\ cutoff' = SelectCutoff(rows, n)
       /\ prune_pc' = IF SelectCutoff(rows, n) # 0 THEN "selected" ELSE "done"
  /\ snap' = Ids(rows)
  /\ late' = {}
  /\ UNCHANGED <<accVars, tailVars, storeVars, queryVars, discVars>>

\* prune: the DELETE and its commit
PruneDelete ==
  /\ prune_pc = "selected"
  /\ rows' = DeleteOlder(rows, cutoff)
  /\ prune_pc' = "done"
  /\ UNCHANGED <<accVars, tailVars, seq, keep_last, cutoff, snap, late, queryVars, discVars>>

\* prune has returned
PruneReturn ==
  /\ prune_pc = "done"
  /\ prune_pc' = "idle"
  /\ keep_last' = 0
  /\ cutoff' = 0
  /\ snap' = {}
  /\ late' = {}
  /\ UNCHANGED <<accVars, tailVars, storeVars, queryVars, discVars>>

DbNext == AppendEvent \/ PruneSelect \/ PruneDelete \/ PruneReturn

SpecDb == DbInit /\ [][DbNext]_vars

(***************************************************************************)
(* The queries of the event store: query_events on a table that appends    *)
(* and prunes have left                                                    *)
(***************************************************************************)
\* the largest id of the tables queried
MaxRows == 3

\* the largest limit of a query
MaxLimit == 2

\* the filters of the queries: none, and one that some rows match
QueryAgents == {"", "sol"}
QueryTypes == {<<>>, Lit_worklog}
QueryTexts == {<<>>, <<"W","O","R","K">>}

\* a call of query_events
QueryEvents ==
  /\ \E l \in 0..MaxLimit, a \in QueryAgents, t \in QueryTypes, x \in QueryTexts :
       answer' = [out |-> query_events(rows, l, a, t, x), typ |-> t, text |-> x, agent |-> a,
                  limit |-> l]
  /\ UNCHANGED <<accVars, tailVars, storeVars, pruneVars, discVars>>

\* the tables that appends and prunes leave: the ids lo..hi, prune having deleted
\* the rows below lo
Tables ==
  UNION {[lo..hi -> [summary : {In_R_plain}, detail : {""}, type : StoreTypes,
                     ts : {"now"}, agent : StoreAgents]] :
           lo \in 1..MaxRows, hi \in 0..MaxRows}

\* the rows of the table t, each with its id
RowsOf(t) ==
  {[summary |-> t[i].summary, detail |-> t[i].detail, type |-> t[i].type, ts |-> t[i].ts,
    id |-> i, agent |-> t[i].agent] : i \in DOMAIN t}

QueryInit ==
  /\ AccStart /\ TailStart /\ PruneStart /\ QueryStart /\ DiscStart
  /\ \E t \in Tables :
       /\ rows = RowsOf(t)
       /\ seq = IF DOMAIN t = {} THEN 0 ELSE CHOOSE i \in DOMAIN t : \A j \in DOMAIN t : j <= i

QueryNext == QueryEvents

SpecQuery == QueryInit /\ [][QueryNext]_vars

(***************************************************************************)
(* Properties of the event store                                           *)
(***************************************************************************)
\* C5: after prune(keep_last = N), with no append meanwhile, on a store that held
\* more than N rows, exactly N of them remain, those with the largest ids
C5_PruningBound ==
  (prune_pc = "done" /\ late = {} /\ Cardinality(snap) > keep_last)
    => /\ Cardinality(Ids(rows) \cap snap) = keep_last
       /\ \A i \in Ids(rows) \cap snap : \A j \in snap \ Ids(rows) : j < i

\* C6: a row inserted after prune has read its cutoff is not deleted by that prune
C6_PruneKeepsLateRows ==
  prune_pc \in {"selected", "done"} => late \subseteq Ids(rows)

\* C6: a prune that deleted rows, with a row inserted between its SELECT and its
\* DELETE
C6_Witness ==
  /\ prune_pc = "done"
  /\ late # {}
  /\ snap \ Ids(rows) # {}
  /\ late \subseteq Ids(rows)

(***************************************************************************)
(* The tailer: main, the sessions that write the files, and the kill and   *)
(* restart of the process                                                  *)
(***************************************************************************)
\* how often, together, the tailer is killed and a session file is truncated
MaxFaults == 1

\* the faults so far
Faults == crashes + truncs + transients

Init == AccStart /\ TailStart /\ StoreStart /\ PruneStart /\ QueryStart /\ DiscStart

\* the number of line feeds of the file
LineFeeds(content) == CountChar(content, NLByte)

\* the number of records that the session has written to the file
Written(content) == LineFeeds(content) - CountChar(content, ScalarByte)

\* the file ends where a line ends
AtLineEnd(content) == IF content = <<>> THEN TRUE ELSE content[Len(content)] = NLByte

\* the file f comes first in the order of modification
Touched(f) == <<f>> \o SelectSeq(mtime_order, LAMBDA g : g # f)

\* a session writes its next record, as one line
WriteLine ==
  \E f \in SessionFiles :
    /\ AtLineEnd(files[f])
    /\ Written(files[f]) < Len(Script[f])
    /\ files' = [files EXCEPT
                   ![f] = @ \o Dumps(Script[f][Written(files[f]) + 1]) \o <<NLByte>>]
    /\ mtime_order' = Touched(f)
    /\ UNCHANGED <<accVars, pos_map, state_file, pc, todo, dashboard, last, persisted,
                   crashes, truncs, transients, first, stop, shrunk, storeVars, pruneVars, queryVars,
                   discVars>>

\* a session writes the first half of its next record
WriteHalf ==
  \E f \in SessionFiles :
    /\ AtLineEnd(files[f])
    /\ Written(files[f]) < Len(Script[f])
    /\ files' = [files EXCEPT
                   ![f] = @ \o <<Dumps(Script[f][Written(files[f]) + 1])[1]>>]
    /\ mtime_order' = Touched(f)
    /\ UNCHANGED <<accVars, pos_map, state_file, pc, todo, dashboard, last, persisted,
                   crashes, truncs, transients, first, stop, shrunk, storeVars, pruneVars, queryVars,
                   discVars>>

\* a session writes the second half of the record and the line feed
WriteRest ==
  \E f \in SessionFiles :
    /\ ~AtLineEnd(files[f])
    /\ files' = [files EXCEPT ![f] = @ \o <<@[Len(@)] + 1, NLByte>>]
    /\ mtime_order' = Touched(f)
    /\ UNCHANGED <<accVars, pos_map, state_file, pc, todo, dashboard, last, persisted,
                   crashes, truncs, transients, first, stop, shrunk, storeVars, pruneVars, queryVars,
                   discVars>>

\* a line that is a JSON document and no object is written to a session file
WriteScalar ==
  \E f \in SessionFiles :
    /\ Faults < MaxFaults
    /\ AtLineEnd(files[f])
    /\ files' = [files EXCEPT ![f] = @ \o <<ScalarByte, NLByte>>]
    /\ mtime_order' = Touched(f)
    /\ transients' = transients + 1
    /\ UNCHANGED <<accVars, pos_map, state_file, pc, todo, dashboard, last, persisted,
                   crashes, truncs, first, stop, shrunk, storeVars, pruneVars, queryVars, discVars>>

\* a session file is truncated to no byte
Truncate ==
  \E f \in SessionFiles :
    /\ Faults < MaxFaults
    /\ files[f] # <<>>
    /\ files' = [files EXCEPT ![f] = <<>>]
    /\ mtime_order' = Touched(f)
    /\ truncs' = truncs + 1
    /\ UNCHANGED <<accVars, pos_map, state_file, pc, todo, dashboard, last, persisted,
                   crashes, transients, first, stop, shrunk, storeVars, pruneVars, queryVars,
                   discVars>>

\* _iter_session_files: the number of files that it returns at most
MaxSessionFiles == 30

\* _iter_session_files on files that are all recent, out being the files found
\* in the order of the sort: recent[:30]
MostRecent(out) == Take(out, MaxSessionFiles)

\* main: files = _iter_session_files(...), all files being recent
IterFiles ==
  /\ pc = "start"
  /\ todo' = MostRecent(mtime_order)
  /\ pc' = "loop"
  /\ UNCHANGED <<accVars, files, mtime_order, pos_map, state_file, dashboard, last,
                 persisted, crashes, truncs, transients, first, stop, shrunk, storeVars, pruneVars, queryVars,
                 discVars>>

\* main: the body of 'for fpath in files' for the file f, once it is read
\* When event_summary has raised, main ends: pos_map is not assigned, and what the
\* lines before have written to the dashboard and to the store stays.
Polled(f, stored, start, lines, r, pos1) ==
  /\ ACC' = r.acc
  /\ dashboard' = r.d
  /\ rows' = r.db.rows
  /\ seq' = r.db.seq
  /\ pos_map' = pos1
  /\ last' = [lines |-> lines, out |-> r.out, start |-> start, raised |-> r.raised,
              logged |-> r.logged, aborted |-> r.aborted, op |-> "poll",
              file |-> f,
              stored0 |-> stored,
              size0 |-> Len(files[f]), stored1 |-> OffsetOf(pos1, f),
              resume |-> IF f \in DOMAIN persisted THEN persisted[f] ELSE -1]
  /\ first' = FirstDerived(first, r.out, 1)
  /\ shrunk' = IF stored > Len(files[f]) THEN shrunk \cup {f} ELSE shrunk
  /\ todo' = IF r.aborted THEN <<>> ELSE Tail(todo)
  /\ pc' = IF r.aborted THEN "dead" ELSE IF Tail(todo) = <<>> THEN "save" ELSE "loop"
  /\ UNCHANGED <<batch, fed, files, mtime_order, state_file, persisted, crashes, truncs,
                 transients,
                 stop, pruneVars, queryVars, discVars>>

\* main: 'pos_map[key] = last_pos' with the fault of storing last_pos when no line
\* was read as well
TailedAlways(f, stored, start, lines, r) ==
  Polled(f, stored, start, lines, r,
         IF ~r.aborted THEN WithOffset(pos_map, f, r.last_pos) ELSE pos_map)

\* main: 'if changed: pos_map[key] = last_pos'
Tailed(f, stored, start, lines, r) ==
  Polled(f, stored, start, lines, r,
         IF lines # <<>> /\ ~r.aborted THEN WithOffset(pos_map, f, r.last_pos)
         ELSE pos_map)

\* main: the loop over the lines read, for the agent that the session names
ReadFrom(f, stored, start, lines) ==
  Tailed(f, stored, start, lines,
         TailLoop([out |-> <<>>, d |-> dashboard, acc |-> ACC,
                   db |-> [rows |-> rows, seq |-> seq], raised |-> 0, logged |-> 0,
                   last_pos |-> start, aborted |-> FALSE],
                  lines, 1, _detect_agent_from_session(files[f])))

\* main: 'if last_pos > size: last_pos = 0', and the lines read from there
StartAt(f, stored, start) ==
  ReadFrom(f, stored, start, _tail_new_lines(files[f], start, MaxLinesPerPoll))

\* main: the body of 'for fpath in files' for the file f
PollFile(f, stored) == StartAt(f, stored, IF stored > Len(files[f]) THEN 0 ELSE stored)

\* main: the body of 'for fpath in files' for the next file
Poll ==
  /\ pc = "loop"
  /\ todo # <<>>
  /\ PollFile(Head(todo), OffsetOf(pos_map, Head(todo)))

\* what main has done when the file f could not be read at the step op
Unread(op, f) ==
  [NoPoll EXCEPT !.op = op, !.file = f, !.stored0 = OffsetOf(pos_map, f),
                 !.stored1 = OffsetOf(pos_map, f), !.size0 = Len(files[f])]

\* main: fpath.stat() raises for the next file, which is briefly not there:
\* _detect_agent_from_session has caught the error of its open, and main goes on
\* to the next file
PollStatFails ==
  /\ pc = "loop"
  /\ todo # <<>>
  /\ Faults < MaxFaults
  /\ transients' = transients + 1
  /\ last' = Unread("stat", Head(todo))
  /\ todo' = Tail(todo)
  /\ pc' = IF Tail(todo) = <<>> THEN "save" ELSE "loop"
  /\ UNCHANGED <<accVars, files, mtime_order, pos_map, state_file, dashboard, persisted,
                 crashes, truncs, first, stop, shrunk, storeVars, pruneVars, queryVars, discVars>>

\* main: fpath.stat() returns and the file is not there, or not readable, when
\* _tail_new_lines opens it: path.open raises outside any try, and main ends
PollOpenFails ==
  /\ pc = "loop"
  /\ todo # <<>>
  /\ Faults < MaxFaults
  /\ transients' = transients + 1
  /\ last' = Unread("open", Head(todo))
  /\ todo' = <<>>
  /\ pc' = "dead"
  /\ UNCHANGED <<accVars, files, mtime_order, pos_map, state_file, dashboard, persisted,
                 crashes, truncs, first, stop, shrunk, storeVars, pruneVars, queryVars, discVars>>

\* main: a file that the glob of _iter_session_files has found is not there when
\* the sort reads its modification time: p.stat() raises outside any try, and
\* main ends
IterStatFails ==
  \E f \in SessionFiles :
    /\ pc = "start"
    /\ Faults < MaxFaults
    /\ transients' = transients + 1
    /\ last' = Unread("iter", f)
    /\ todo' = <<>>
    /\ pc' = "dead"
    /\ UNCHANGED <<accVars, files, mtime_order, pos_map, state_file, dashboard, persisted,
                   crashes, truncs, first, stop, shrunk, storeVars, pruneVars, queryVars, discVars>>

\* main: _save_tailer_state(state_path, pos_map), and the sleep.  write_text opens
\* the state file, which truncates it, writes the JSON and closes the file.
Save ==
  /\ pc = "save"
  /\ state_file' = _save_tailer_state(pos_map)
  /\ persisted' = pos_map
  /\ pc' = "start"
  /\ shrunk' = {}
  /\ UNCHANGED <<accVars, files, mtime_order, pos_map, todo, dashboard, last, crashes,
                 truncs, transients, first, stop, storeVars, pruneVars, queryVars, discVars>>

\* the process ends, leaving the state file sf, and is started again:
\* ACC = TurnAccumulator() and pos_map = _load_tailer_state(state_path)['files']
Restart(sf) ==
  /\ Faults < MaxFaults
  /\ crashes' = crashes + 1
  /\ state_file' = sf
  /\ ACC' = reset
  /\ pos_map' = _load_tailer_state(sf)
  /\ pc' = "start"
  /\ todo' = <<>>
  /\ stop' = [at |-> pc, pos |-> pos_map, prev |-> persisted,
              loaded |-> _load_tailer_state(sf)]
  /\ shrunk' = {}
  /\ UNCHANGED <<batch, fed, files, mtime_order, dashboard, last, persisted, truncs, transients,
                 first, storeVars, pruneVars, queryVars, discVars>>

\* the process is killed in _save_tailer_state, after write_text has opened the
\* state file and before it has written to it, and is started again
CrashInSave ==
  /\ pc = "save"
  /\ Restart([files |-> {}, state |-> "empty"])

\* the process is killed or interrupted anywhere else, and is started again: main
\* handles no signal and no KeyboardInterrupt, so that an interrupt ends the
\* process where it stands
CrashRestart == Restart(state_file)

Next ==
  \/ WriteLine \/ WriteHalf \/ WriteRest \/ WriteScalar \/ Truncate
  \/ IterFiles \/ Poll \/ Save \/ CrashInSave \/ CrashRestart
  \/ PollStatFails \/ PollOpenFails \/ IterStatFails

Spec == Init /\ [][Next]_vars

(***************************************************************************)
(* The tailer on files that hold more lines than one pass reads.  The loop *)
(* of main is the one above; max_lines, which main gives as 500, is        *)
(* CapLines here, so that files of a few lines hold more than a pass reads *)
(***************************************************************************)
\* max_lines of the call of _tail_new_lines
CapLines == 2

\* the number of times that the tailer is stopped and started
MaxReloads == 1

\* the number of lines that a file holds at most
MaxPending == 5

\* the lines written: a user record, and a blank line
LineKinds == {Dumps(1) \o <<NLByte>>, <<NLByte>>}

\* the files of n lines
RECURSIVE FilesOfLines(_)
FilesOfLines(n) ==
  IF n = 0 THEN {<<>>}
  ELSE {l \o c : l \in LineKinds, c \in FilesOfLines(n - 1)}

\* main before its first pass: everything of TailStart but the files and the
\* dashboard data
MainStart ==
  /\ pos_map = _load_tailer_state(NoStateFile)
  /\ state_file = NoStateFile
  /\ pc = "start"
  /\ todo = <<>>
  /\ last = NoPoll
  /\ persisted = NoOffsets
  /\ crashes = 0
  /\ truncs = 0
  /\ transients = 0
  /\ first = NothingDerived
  /\ stop = NoStop
  /\ shrunk = {}

CapInit ==
  /\ AccStart /\ StoreStart /\ PruneStart /\ QueryStart /\ DiscStart /\ MainStart
  /\ dashboard = NewDashboard
  /\ mtime_order = <<"A", "B">>
  /\ \E n \in 0..MaxPending : \E c \in FilesOfLines(n) : files = [A |-> c, B |-> <<>>]

\* main: the lines read from start on, CapLines at most
CappedAt(f, stored, start) ==
  ReadFrom(f, stored, start, _tail_new_lines(files[f], start, CapLines))

\* main: the body of 'for fpath in files' for the file f
CappedFile(f, stored) == CappedAt(f, stored, IF stored > Len(files[f]) THEN 0 ELSE stored)

\* main: the body of 'for fpath in files' for the next file
PollCapped ==
  /\ pc = "loop"
  /\ todo # <<>>
  /\ CappedFile(Head(todo), OffsetOf(pos_map, Head(todo)))

CapNext == IterFiles \/ PollCapped \/ Save

SpecCap == CapInit /\ [][CapNext]_vars

(***************************************************************************)
(* _iter_session_files.  disk is [dirs, glob, arg, now]: dirs[d] are the   *)
(* entries of the directory d, sorted by name, each [path, jsonl, mtime],  *)
(* a path being a number and jsonl telling whether the name ends in        *)
(* '.jsonl'; glob are the paths that sessions_glob matches, sorted; arg is *)
(* the path that sessions_arg names, 0 for none; now is time.time().  A    *)
(* path that is no index of dirs is no directory.                          *)
(***************************************************************************)
\* 24 * 3600
RecentWindow == 86400

\* sorted(d.glob('*.jsonl')) if d.is_dir(), as a list of entries
JsonlOf(dk, d) ==
  IF d \in DOMAIN dk.dirs THEN SelectSeq(dk.dirs[d], LAMBDA e : e.jsonl) ELSE <<>>

\* the loop over the directories that sessions_glob matches
RECURSIVE GlobbedFrom(_, _)
GlobbedFrom(dk, i) ==
  IF i > Len(dk.glob) THEN <<>> ELSE JsonlOf(dk, dk.glob[i]) \o GlobbedFrom(dk, i + 1)

\* the values of uniq, with the fault of keeping every entry of the list
UniqAll(es) == es

\* uniq[str(p)] = p for p in files; list(uniq.values()): a dict keeps its keys in
\* the order in which they were first set
Uniq(es) ==
  LET firsts == SelectSeq([i \in 1..Len(es) |-> i],
                          LAMBDA i : \A j \in 1..(i - 1) : es[j].path # es[i].path)
  IN [k \in 1..Len(firsts) |-> es[firsts[k]]]

\* out.sort(key=mtime, reverse=True): the sort is stable, so that entries of equal
\* mtime keep their order
SortNewestFirst(es) ==
  LET place(i) == 1 + Cardinality({j \in 1..Len(es) : es[j].mtime > es[i].mtime})
                    + Cardinality({j \in 1..(i - 1) : es[j].mtime = es[i].mtime})
  IN [p \in 1..Len(es) |-> es[CHOOSE i \in 1..Len(es) : place(i) = p]]

\* _iter_session_files(sessions_arg, sessions_glob), as a list of entries
_iter_session_files(dk) ==
  LET files0 == GlobbedFrom(dk, 1) \o (IF dk.arg # 0 THEN JsonlOf(dk, dk.arg) ELSE <<>>)
      recent(out) == SelectSeq(out, LAMBDA e : dk.now - e.mtime < RecentWindow)
  IN Take(recent(SortNewestFirst(Uniq(files0))), MaxSessionFiles)

\* the numbers of entries of the two session directories
DirSizes == {0, 3, 32}

\* the time of the call
In_Now == 1000000

\* how the ages of the entries of a directory follow their names
AgePatterns == {"rising", "falling", "equal", "old", "future"}

\* the mtime of the k-th entry of the directory d
MtimeOf(pat, d, k) ==
  IF pat = "rising" THEN In_Now - (10 * k + d)
  ELSE IF pat = "falling" THEN In_Now - 1000 + (10 * k + d)
  ELSE IF pat = "equal" THEN In_Now - 60
  ELSE IF pat = "old" THEN (IF k % 3 = 0 THEN In_Now - RecentWindow - (k % 2)
                            ELSE In_Now - RecentWindow + k)
  ELSE In_Now + k

\* the directory d with n entries; every fifth name does not end in '.jsonl'
DirOf(pat, d, n) ==
  [k \in 1..n |-> [path |-> 100 * d + k, jsonl |-> k % 5 # 0, mtime |-> MtimeOf(pat, d, k)]]

\* what sessions_glob matches and what sessions_arg names: the directories 1 and
\* 2, and the path 3, which is no directory
GlobArgs == {<<>>, <<1>>, <<1, 2>>, <<2, 3>>}
PathArgs == {0, 1, 2, 3}

DiscInit ==
  /\ AccStart /\ TailStart /\ StoreStart /\ PruneStart /\ QueryStart
  /\ found = NotFound
  /\ \E pat \in AgePatterns, n1 \in DirSizes, n2 \in DirSizes, g \in GlobArgs, a \in PathArgs :
       disk = [dirs |-> <<DirOf(pat, 1, n1), DirOf(pat, 2, n2)>>, glob |-> g, arg |-> a,
               now |-> In_Now]

\* main: files = _iter_session_files(args.sessions, args.sessions_glob)
Discover ==
  /\ ~found.ran
  /\ found' = [files |-> _iter_session_files(disk), ran |-> TRUE]
  /\ UNCHANGED <<accVars, tailVars, storeVars, pruneVars, queryVars, disk>>

SpecDisc == DiscInit /\ [][Discover]_vars

(***************************************************************************)
(* append_sol on dashboard data whose lists are full, or nearly            *)
(***************************************************************************)
\* the content of the events of round i
Numbered(i) ==
  <<"n", "o", " ", Digits[((i \div 100) % 10) + 1], Digits[((i \div 10) % 10) + 1],
    Digits[(i % 10) + 1]>>

\* the kinds of the three events of a round, in order
RoundTypes == <<Lit_worklog, Lit_thought, AgentMark_improvement>>

\* the dashboard data after n rounds: in round i, append_sol is called for the
\* agent 'sol' with the content Numbered(i) and no detail text, once for each
\* kind of RoundTypes
AfterRounds(n) ==
  [NewDashboard EXCEPT
     !.agents = [@ EXCEPT !["sol"] =
                   LastN([j \in 1..(3 * n) |->
                            [content |-> Numbered(((j - 1) \div 3) + 1),
                             type |-> RoundTypes[((j - 1) % 3) + 1],
                             details |-> <<>>]], AgentListCap)],
     !.worklog = LastN([i \in 1..n |-> [content |-> Numbered(i), type |-> Lit_worklog,
                                        detail_text |-> Numbered(i)]], StreamCap),
     !.thoughts = LastN([i \in 1..n |-> [content |-> Numbered(i), type |-> Lit_thought,
                                         detail_text |-> Numbered(i)]], StreamCap),
     !.improvements = LastN([i \in 1..n |-> [content |-> Numbered(i),
                                             detail_text |-> Numbered(i),
                                             title |-> Numbered(i)]], ImprovementsCap)]

\* the numbers of rounds after which the lists are empty, nearly full, and full
SeedRounds == {0, 299, 300, 666, 667, 799, 800}

\* the number of calls of append_sol after the rounds
MaxAppends == 2

\* the agents of the calls: one that the dashboard data holds, and one that it
\* does not
CapAgents == {"sol", "code"}

\* the number of entries of the agents' lists that the calls after the rounds made
Appended(d) ==
  LET made(a) == IF a \in DOMAIN d.agents
                 THEN Len(SelectSeq(d.agents[a], LAMBDA e : e.content = In_X_min))
                 ELSE 0
  IN made("sol") + made("code")

CapsInit ==
  /\ AccStart /\ StoreStart /\ PruneStart /\ QueryStart /\ DiscStart /\ MainStart
  /\ files = [f \in SessionFiles |-> <<>>]
  /\ mtime_order = <<"A", "B">>
  /\ \E n \in SeedRounds : dashboard = AfterRounds(n)

\* append_sol(d, typ, In_X_min, agent=agent): load_dashboard, the call, and
\* save_dashboard
AppendSol(typ, agent) ==
  LET r == append_sol([d |-> dashboard, db |-> [rows |-> rows, seq |-> seq],
                       raised |-> 0, logged |-> 0], typ, In_X_min, <<>>, agent)
  IN /\ Appended(dashboard) < MaxAppends
     /\ dashboard' = r.d
     /\ rows' = r.db.rows
     /\ seq' = r.db.seq
     /\ UNCHANGED <<accVars, files, mtime_order, pos_map, state_file, pc, todo, last,
                    persisted, crashes, truncs, transients, first, stop, shrunk,
                    pruneVars, queryVars, discVars>>

\* the kinds of the calls: one for each stream, and one for no stream
CapTypes == {Lit_worklog, Lit_thought, AgentMark_improvement, Lit_message}

CapsNext == \E typ \in CapTypes, a \in CapAgents : AppendSol(typ, a)

SpecCaps == CapsInit /\ [][CapsNext]_vars

(***************************************************************************)
(* append_sol on events whose texts are as long as the caps, and longer    *)
(***************************************************************************)
\* a text of n characters
Filler(n) == [i \in 1..n |-> "x"]

\* the lengths of the summaries and of the detail texts of the events
SummaryLengths == {0, 200, 201, 500, 501}
DetailLengths == {0, 8000, 8001, 12000, 12001}

\* the number of events appended
MaxLongEvents == 2

LongInit ==
  /\ AccStart /\ StoreStart /\ PruneStart /\ QueryStart /\ DiscStart /\ MainStart
  /\ files = [f \in SessionFiles |-> <<>>]
  /\ mtime_order = <<"A", "B">>
  /\ dashboard = NewDashboard

\* main: 'typ, summary, detail_text = ev' and the call of append_sol for an event of
\* the agent 'sol', between load_dashboard and save_dashboard
AppendLong ==
  \E n \in SummaryLengths, m \in DetailLengths :
    LET ev == [typ |-> Lit_message, summary |-> Filler(n), detail |-> Filler(m)]
        r == append_sol([d |-> dashboard, db |-> [rows |-> rows, seq |-> seq],
                         raised |-> 0, logged |-> 0], ev.typ, ev.summary, ev.detail, "sol")
    IN /\ Len(dashboard.agents["sol"]) < MaxLongEvents
       /\ batch' = <<ev>>
       /\ dashboard' = r.d
       /\ rows' = r.db.rows
       /\ seq' = r.db.seq
       /\ UNCHANGED <<ACC, fed, files, mtime_order, pos_map, state_file, pc, todo, last,
                      persisted, crashes, truncs, transients, first, stop, shrunk,
                      pruneVars, queryVars, discVars>>

SpecLong == LongInit /\ [][AppendLong]_vars

(***************************************************************************)
(* The state file of the tailer, written by _save_tailer_state, by the     *)
(* tailer of before, or by neither, and loaded                             *)
(***************************************************************************)
\* the offsets of the files
In_Offsets == {0, 7, 12, 340}

\* the state files that the tailer of before has written: {last_file, last_pos},
\* either of them null as well
LegacyFiles ==
  {[files |-> {}, state |-> "legacy", last_file |-> f, last_pos |-> p] :
     f \in {"", "A"}, p \in {<<>>} \cup {int_str(n) : n \in In_Offsets}}

\* the state files that no tailer has written
ForeignFiles ==
  {NoStateFile, [files |-> {}, state |-> "empty"], [files |-> {}, state |-> "scalar"]}

\* the mappings of some session files to offsets
OffsetMaps == UNION {[fs -> In_Offsets] : fs \in SUBSET SessionFiles}

StateInit ==
  /\ AccStart /\ StoreStart /\ PruneStart /\ QueryStart /\ DiscStart
  /\ files = [f \in SessionFiles |-> <<>>]
  /\ mtime_order = <<"A", "B">>
  /\ dashboard = NewDashboard
  /\ state_file \in LegacyFiles \cup ForeignFiles
  /\ pos_map = _load_tailer_state(state_file)
  /\ pc = "start" /\ todo = <<>> /\ last = NoPoll /\ persisted = NoOffsets
  /\ crashes = 0 /\ truncs = 0 /\ transients = 0 /\ first = NothingDerived
  /\ stop = NoStop /\ shrunk = {}

\* main: passes that set pos_map to m, up to the call of _save_tailer_state
Passes ==
  \E m \in OffsetMaps :
    /\ pc = "start"
    /\ pos_map' = m
    /\ pc' = "save"
    /\ UNCHANGED <<accVars, files, mtime_order, state_file, todo, dashboard, last, persisted,
                   crashes, truncs, transients, first, stop, shrunk, storeVars, pruneVars,
                   queryVars, discVars>>

\* the tailer is stopped and started: pos_map = _load_tailer_state(state_path)
Reload ==
  /\ crashes < MaxReloads
  /\ crashes' = crashes + 1
  /\ pos_map' = _load_tailer_state(state_file)
  /\ stop' = [at |-> pc, pos |-> pos_map, prev |-> persisted,
              loaded |-> _load_tailer_state(state_file)]
  /\ pc' = "start"
  /\ UNCHANGED <<accVars, files, mtime_order, state_file, todo, dashboard, last, persisted,
                 truncs, transients, first, shrunk, storeVars, pruneVars, queryVars,
                 discVars>>

StateNext == Passes \/ Save \/ Reload

SpecState == StateInit /\ [][StateNext]_vars

(***************************************************************************)
(* The tailer on a session whose second user message names an agent        *)
(***************************************************************************)
\* the index in Recs of the user message that names the agent
NamingRec == NumRecs

\* the lines of the session: a user message that names no agent, and the one
\* that names the agent
FirstLines == {Dumps(1) \o <<NLByte>>, Dumps(3) \o <<NLByte>>}
NamingLine == Dumps(NamingRec) \o <<NLByte>>

AgentInit ==
  /\ AccStart /\ StoreStart /\ PruneStart /\ QueryStart /\ DiscStart /\ MainStart
  /\ dashboard = NewDashboard
  /\ mtime_order = <<"A", "B">>
  /\ files \in {[A |-> c, B |-> <<>>] : c \in {<<>>} \cup FirstLines}

\* the session writes its first user message
WriteFirst ==
  /\ files["A"] = <<>>
  /\ \E l \in FirstLines : files' = [files EXCEPT !["A"] = l]
  /\ UNCHANGED <<accVars, mtime_order, pos_map, state_file, pc, todo, dashboard, last,
                 persisted, crashes, truncs, transients, first, stop, shrunk, storeVars,
                 pruneVars, queryVars, discVars>>

\* the session writes the user message that names the agent
WriteNaming ==
  /\ files["A"] \in FirstLines
  /\ files' = [files EXCEPT !["A"] = @ \o NamingLine]
  /\ UNCHANGED <<accVars, mtime_order, pos_map, state_file, pc, todo, dashboard, last,
                 persisted, crashes, truncs, transients, first, stop, shrunk, storeVars,
                 pruneVars, queryVars, discVars>>

\* the session writes a user message after the one that names the agent
WriteLater ==
  /\ \E l \in FirstLines : files["A"] = l \o NamingLine
  /\ \E l \in FirstLines : files' = [files EXCEPT !["A"] = @ \o l]
  /\ UNCHANGED <<accVars, mtime_order, pos_map, state_file, pc, todo, dashboard, last,
                 persisted, crashes, truncs, transients, first, stop, shrunk, storeVars,
                 pruneVars, queryVars, discVars>>

AgentNext == WriteFirst \/ WriteNaming \/ WriteLater \/ IterFiles \/ Poll \/ Save

SpecAgent == AgentInit /\ [][AgentNext]_vars

(***************************************************************************)
(* The tailer on files whose lines hold bytes that are no UTF-8, and lines *)
(* that end with a carriage return and a line feed                         *)
(***************************************************************************)
\* the number of lines that a file holds at most
MaxByteLines == 2

\* the lines written: a user record, the same with a byte that is no UTF-8 in
\* its text, and the same ending with a carriage return and a line feed
ByteLineKinds ==
  {Dumps(1) \o <<NLByte>>,
   <<Dumps(1)[1], BadByte, Dumps(1)[2], NLByte>>,
   Dumps(1) \o <<CRByte, NLByte>>}

\* the files of n lines
RECURSIVE FilesOfByteLines(_)
FilesOfByteLines(n) ==
  IF n = 0 THEN {<<>>}
  ELSE {l \o c : l \in ByteLineKinds, c \in FilesOfByteLines(n - 1)}

BytesInit ==
  /\ AccStart /\ StoreStart /\ PruneStart /\ QueryStart /\ DiscStart /\ MainStart
  /\ dashboard = NewDashboard
  /\ mtime_order = <<"A", "B">>
  /\ \E n \in 0..MaxByteLines : \E c \in FilesOfByteLines(n) :
        \E m \in 0..MaxByteLines : \E e \in FilesOfByteLines(m) :
          files = [A |-> c, B |-> e]

BytesNext == IterFiles \/ Poll \/ Save

SpecBytes == BytesInit /\ [][BytesNext]_vars

(***************************************************************************)
(* The tailer on more session files than _iter_session_files returns, each *)
(* holding one line that no pass has read yet                              *)
(***************************************************************************)
\* the session files, in the order in which they were last written
ManyFiles ==
  <<"S01", "S02", "S03", "S04", "S05", "S06", "S07", "S08",
    "S09", "S10", "S11", "S12", "S13", "S14", "S15", "S16",
    "S17", "S18", "S19", "S20", "S21", "S22", "S23", "S24",
    "S25", "S26", "S27", "S28", "S29", "S30", "S31">>

\* the elements of xs
SetOf(xs) == {xs[i] : i \in DOMAIN xs}

\* the number of files by which the order of modification is shifted at most
MaxShift == 1

\* the number of lines that the sessions write while the tailer runs
MaxResumed == 1

\* the line that each session has written
PendingLine == Dumps(1) \o <<NLByte>>

\* the number of lines written while the tailer runs
Resumed == Cardinality({f \in DOMAIN files : files[f] # PendingLine})

\* xs, its first n elements being moved to its end
Shifted(xs, n) == Drop(xs, n) \o Take(xs, n)

ManyInit ==
  /\ AccStart /\ StoreStart /\ PruneStart /\ QueryStart /\ DiscStart /\ MainStart
  /\ dashboard = NewDashboard
  /\ files = [f \in SetOf(ManyFiles) |-> PendingLine]
  /\ \E n \in 0..MaxShift : mtime_order = Shifted(ManyFiles, n)

\* a session writes one more line
Resume ==
  \E f \in SetOf(ManyFiles) :
    /\ Resumed < MaxResumed
    /\ files[f] = PendingLine
    /\ files' = [files EXCEPT ![f] = @ \o PendingLine]
    /\ mtime_order' = Touched(f)
    /\ UNCHANGED <<accVars, pos_map, state_file, pc, todo, dashboard, last, persisted,
                   crashes, truncs, transients, first, stop, shrunk, storeVars, pruneVars, queryVars,
                   discVars>>

ManyNext == Resume \/ IterFiles \/ Poll \/ Save

\* main goes on to the next file of the pass: what Poll does to todo
NextFile == pc = "loop" /\ todo # <<>> /\ todo' = Tail(todo)

\* the loop of main goes on: no step of it waits for anything but the sleep
SpecMany ==
  /\ ManyInit /\ [][ManyNext]_vars
  /\ WF_vars(IterFiles) /\ WF_todo(NextFile) /\ WF_vars(Save)

(***************************************************************************)
(* Properties of the tailer                                                *)
(***************************************************************************)
\* the last step of main that read a file
LastPoll == last.op = "poll"

\* the events of the records that the last reading of a file read, in order
RECURSIVE EventsOf(_, _)
EventsOf(out, i) == IF i > Len(out) THEN <<>> ELSE out[i].ev \o EventsOf(out, i + 1)

\* the text t occurs in the summary or the detail of an event of evs
Mentions(evs, t) ==
  \E j \in 1..Len(evs) : Contains(evs[j].summary, t) \/ Contains(evs[j].detail, t)

\* C1: no event emitted for a record of the file A holds the user text that was
\* read from the file B
C1_FilesKeptApart ==
  (LastPoll /\ last.file = "A") => ~Mentions(EventsOf(last.out, 1), In_U_other)

\* C7: without truncation, a reading of a file whose offset has been persisted
\* starts at the persisted offset
C7_ResumeAtPersisted ==
  (LastPoll /\ truncs = 0 /\ last.resume >= 0) => last.start = last.resume

\* C8: a reading that finds the file shorter than its stored offset starts at byte
\* 0 and leaves a stored offset that does not exceed the size of the file
C8_TruncationResets ==
  (LastPoll /\ last.stored0 > last.size0)
    => last.start = 0 /\ last.stored1 <= last.size0

\* C9: every line that a reading hands to the loop ends with a line feed
C9_NoPartialLine ==
  LastPoll => \A i \in 1..Len(last.lines) : last.lines[i][Len(last.lines[i])] = NLByte

\* the number of entries of the lists of the agents in the live view
AgentEntries(d) ==
  LET RECURSIVE Sum(_)
      Sum(S) == IF S = {} THEN 0
                ELSE LET a == CHOOSE x \in S : TRUE IN Len(d.agents[a]) + Sum(S \ {a})
  IN Sum(DOMAIN d.agents)

\* C10: the store holds a row for every entry of the live view
C10_EveryEntryStored == Cardinality(rows) >= AgentEntries(dashboard)

\* C11: the tailer reports every failure of append_event
C11_FailuresReported == LastPoll => last.logged >= last.raised

(***************************************************************************)
(* Properties of the accumulator: the turn state                           *)
(***************************************************************************)
\* the last record fed is a user record
UserFed == fed.has_message /\ fed.role = "user"

\* C12: after a user record, whatever the state before it, the accumulator holds
\* no tool call, no tool result, no thinking excerpt and no response text, and its
\* user text and time stamp are those of the record
C12_UserResets ==
  UserFed =>
    /\ ACC.tool_calls = <<>>
    /\ ACC.tool_results = <<>>
    /\ ACC.thinking = <<>>
    /\ ACC.response_text = <<>>
    /\ ACC.user_text = Strip(_extract_user_text(fed.content))
    /\ ACC.user_ts = fed.timestamp

\* C12: a user record with a text has been fed
C12_Witness ==
  /\ UserFed
  /\ ACC.user_text = In_U_tar
  /\ batch # <<>>

\* the tool call exec of the command 'systemctl restart foo'
ExecRestart == [arguments |-> [NoArgs EXCEPT !.command = In_Cmd_restart], name |-> Lit_exec]

\* the content is a list of blocks that are all of the type typ
OnlyBlocks(content, typ) ==
  /\ content.kind = "list"
  /\ content.blocks # <<>>
  /\ \A i \in 1..Len(content.blocks) : content.blocks[i].type = typ

\* the turn of the user text 'please restart the service' and the tool call exec
\* 'systemctl restart foo' is completed by an assistant record that carries only a
\* response text, which has no header line of a footer
RestartTurnCompleted ==
  /\ fed.role = "assistant"
  /\ OnlyBlocks(fed.content, "text")
  /\ CarriesText(fed)
  /\ ~HeaderLine(ACC.response_text)
  /\ ACC.user_text = In_U_plain
  /\ ACC.tool_calls = <<ExecRestart>>
  /\ ACC.tool_results = <<>>
  /\ ACC.thinking = <<>>

\* C13: the user text 'please restart the service', then an assistant record with
\* the tool call exec 'systemctl restart foo', then an assistant record with a
\* response without footer give one worklog event 'Service: restarted', one
\* activity event and no cognitive event
C13_RestartScenario ==
  RestartTurnCompleted =>
    /\ Len(OfKind(Lit_worklog)) = 1
    /\ OfKind(Lit_worklog)[1].summary = Lit_ServiceRestarted
    /\ Len(OfKind(Lit_activity)) = 1
    /\ Len(CognitiveEvents) = 0

\* C13: the scenario with the response 'Restarted it.'
C13_Witness ==
  /\ RestartTurnCompleted
  /\ ACC.response_text = In_R_plain
  /\ Len(batch) = 2

\* the accumulator without its thinking excerpts
WithoutThinking(acc) == [acc EXCEPT !.thinking = <<>>]

\* the record without the thinking blocks of its content
WithoutThinkingBlocks(obj) ==
  IF obj.content.kind = "list"
  THEN [obj EXCEPT !.content.blocks = SelectSeq(@, LAMBDA b : b.type # "thinking")]
  ELSE obj

\* event_summary on the accumulator and the record without what they hold of
\* thinking gives the events ev and an accumulator that differs from acc at most
\* in the thinking excerpts
SameWithoutThinking(r, ev, acc) == ev = r.ev /\ WithoutThinking(acc) = WithoutThinking(r.acc)

\* C14: the events of a record, and what the accumulator keeps for the later
\* events, are those of the record without its thinking blocks on the accumulator
\* without its thinking excerpts; an assistant record with only thinking blocks
\* gives no event
C14_ThinkingNeverSurfaces ==
  [][/\ SameWithoutThinking(event_summary(WithoutThinking(ACC), WithoutThinkingBlocks(fed')),
                            batch', ACC')
     /\ (fed'.role = "assistant" /\ OnlyBlocks(fed'.content, "thinking")) => batch' = <<>>]_vars

\* C14: a turn with a thinking excerpt is completed by an assistant record that
\* carries a thinking block, a tool call and a response text
C14_Witness ==
  /\ CarriesText(fed)
  /\ \E i \in 1..Len(fed.content.blocks) : fed.content.blocks[i].type = "thinking"
  /\ ACC.thinking # <<>>
  /\ Len(batch) >= 2

\* the kinds and contents of the entries that append_sol makes of the events evs
EntriesOf(evs) ==
  [k \in 1..Len(evs) |-> [content |-> Take(evs[k].summary, ContentCap), type |-> evs[k].typ]]

\* the kinds and contents of the entries of the list
Shown(list) == [k \in 1..Len(list) |-> [content |-> list[k].content, type |-> list[k].type]]

\* C15: the lines that a reading of a file hands to the loop follow one another in
\* the file, and the events of its records are at the end of the list of an agent
\* of the live view, in the order of the records and, for one record, of the batch
C15_EmittedInFileOrder ==
  LastPoll =>
    /\ \A i \in 1..Len(last.out) :
         \A j \in 1..Len(last.out) : i < j => last.out[i].to <= last.out[j].from
    /\ \E a \in DOMAIN dashboard.agents :
         /\ Len(dashboard.agents[a]) >= Len(EventsOf(last.out, 1))
         /\ LastN(Shown(dashboard.agents[a]), Len(EventsOf(last.out, 1)))
              = EntriesOf(EventsOf(last.out, 1))

\* C15: one reading of a file read its user record and then its assistant record,
\* which gave the message event and then the worklog and the activity events
C15_Witness ==
  /\ LastPoll
  /\ Len(last.out) = 2
  /\ last.out[1].ev # <<>>
  /\ Len(last.out[2].ev) = 2

\* the step is a completed _save_tailer_state
Saved == pc = "save" /\ pc' = "start" /\ crashes' = crashes

\* from one save to the next, the offset of a file that was not found shorter than
\* its offset does not decrease
MonotonicUnlessShrunk ==
  [][Saved => \A f \in DOMAIN persisted \ shrunk :
                f \in DOMAIN persisted' /\ persisted'[f] >= persisted[f]]_vars

\* C16: from one save to the next, the offset of a file does not decrease, unless
\* the file was found shorter than its offset, and then the offset saved is the
\* number of bytes read from byte 0 on, which the file holds
C16_OffsetsMonotonic ==
  [][Saved => \A f \in DOMAIN persisted :
                /\ f \in DOMAIN persisted'
                /\ IF f \in shrunk THEN persisted'[f] <= Len(files[f])
                   ELSE persisted'[f] >= persisted[f]]_vars

\* C17: without truncation, the records that a started-again tailer reads lie at or
\* after the offset of their file that the last completed save wrote: no record
\* from before that offset is processed a second time
C17_OnlyUnsavedLinesAgain ==
  (LastPoll /\ crashes > 0 /\ truncs = 0 /\ last.resume >= 0)
    => \A i \in 1..Len(last.out) : last.out[i].from >= last.resume

\* C18: without truncation, the events that a started-again tailer derives from a
\* record are those that the first reading of the record derived
C18_ReplaySameEvents ==
  (LastPoll /\ crashes > 0 /\ truncs = 0)
    => \A i \in 1..Len(last.out) : first[last.out[i].rec] = <<last.out[i].ev>>

\* C19: a tailer that was stopped in a pass had saved the offsets that it held
C19_OffsetsFlushedAtStop ==
  stop.at \in {"loop", "save"} => stop.loaded = stop.pos

\* C20: a tailer that is started again after a kill in _save_tailer_state loads
\* the offsets of the save before, or those that the interrupted save was writing
C20_StateFileAtomic ==
  stop.at = "save" => stop.loaded \in {stop.prev, stop.pos}

(***************************************************************************)
(* Properties of the event store: identifiers and queries                  *)
(***************************************************************************)
\* C21: the id of a row that an append inserts is larger than every id that the
\* table has ever held, whatever appends and steps of prune came before; so the
\* ids returned increase in the order of the commits and none comes back
C21_IdsIncrease ==
  [][/\ \A r \in rows' \ rows : r.id > seq /\ \A q \in rows : r.id > q.id
     /\ seq' >= seq
     /\ \A r \in rows' : r.id <= seq']_vars

\* C21: an append after a prune has deleted rows: the newest id is held, and ids
\* below it are gone
C21_Witness ==
  /\ seq \in Ids(rows)
  /\ Cardinality(rows) >= 2
  /\ \E i \in 1..seq : i \notin Ids(rows)

\* the row matches the filters that the last query gave
Matches(r) ==
  /\ (answer.agent # "" => r.agent = answer.agent)
  /\ (answer.typ # <<>> => r.type = answer.typ)
  /\ (answer.text # <<>> => (Like(r.summary, answer.text) \/ Like(detail_json(r), answer.text)))

\* C22: query_events returns at most limit rows of the table, each matching every
\* filter given, with strictly descending ids, and no matching row that it leaves
\* out has a larger id than one it returns; on an empty table it returns none
C22_QueryNewestFirst ==
  /\ Len(answer.out) <= answer.limit
  /\ \A i \in 1..Len(answer.out) : answer.out[i] \in rows /\ Matches(answer.out[i])
  /\ \A i \in 1..Len(answer.out) :
       \A j \in 1..Len(answer.out) : i < j => answer.out[i].id > answer.out[j].id
  /\ \A r \in rows :
       (Matches(r) /\ \A i \in 1..Len(answer.out) : answer.out[i] # r)
         => /\ Len(answer.out) = answer.limit
            /\ \A i \in 1..Len(answer.out) : answer.out[i].id > r.id
  /\ (rows = {} => answer.out = <<>>)

\* C22: a query with the filters agent and type and the limit 1 returned a row,
\* and left out an older row that matches and a newer row that does not match
C22_Witness ==
  /\ answer.limit = 1
  /\ Len(answer.out) = 1
  /\ answer.agent # ""
  /\ answer.typ # <<>>
  /\ \E r \in rows : Matches(r) /\ r.id < answer.out[1].id
  /\ \E r \in rows : ~Matches(r) /\ r.id > answer.out[1].id

(***************************************************************************)
(* Properties of the tailer: lines that are no records, files that cannot  *)
(* be read                                                                 *)
(***************************************************************************)
\* the lines read, one after the other
RECURSIVE BytesOf(_)
BytesOf(lines) == IF lines = <<>> THEN <<>> ELSE lines[1] \o BytesOf(Tail(lines))

\* the last reading of a file read a line that is no record
ReadForeignLine ==
  LastPoll /\ \E i \in 1..Len(last.lines) : json_loads(last.lines[i]) <= 0

\* C23: a reading that meets a line that is no record goes on: main does not end,
\* the line gives no event, and the offset stored is past every line read
C23_ForeignLineSkipped ==
  ReadForeignLine
    => /\ ~last.aborted
       /\ \A i \in 1..Len(last.out) : last.out[i].rec > 0
       /\ last.stored1 = last.start + Len(BytesOf(last.lines))

\* C23, for the lines that json.loads refuses
C23_UnparsedLineSkipped ==
  (LastPoll /\ \A i \in 1..Len(last.lines) : json_loads(last.lines[i]) >= 0)
    => /\ ~last.aborted
       /\ last.stored1 = IF last.lines = <<>> THEN last.stored0
                         ELSE last.start + Len(BytesOf(last.lines))

\* main has found a file that cannot be read
FoundUnreadable == last.op \in {"iter", "stat", "open"}

\* C24: when a file cannot be read, main goes on and the offset of the file stays
C24_UnreadableIsNoData ==
  FoundUnreadable => pc # "dead" /\ OffsetOf(pos_map, last.file) = last.stored0

\* C24, for the file that is not there when main reads its size
C24_StatFailureIsNoData ==
  last.op = "stat" => pc # "dead" /\ OffsetOf(pos_map, last.file) = last.stored0

(***************************************************************************)
(* Properties of a turn in progress                                        *)
(***************************************************************************)
\* the tool calls of the blocks, in the order of the blocks
CallsOf(blocks) ==
  LET calls(tcs) == [i \in 1..Len(tcs) |-> Call(tcs[i].name, tcs[i].arguments)]
  IN calls(SelectSeq(blocks, LAMBDA b : b.type = "toolCall"))

\* the record is an assistant message with tool calls and without response text
CallsWithoutText(obj) ==
  /\ obj.role = "assistant"
  /\ obj.content.kind = "list"
  /\ CallsOf(obj.content.blocks) # <<>>
  /\ ~CarriesText(obj)

\* C25: reading an assistant message with tool calls and without response text
\* gives no event and puts its tool calls, in the order of the blocks, at the end
\* of tool_calls; user_text, user_ts, tool_results and response_text stay, and
\* so does thinking when the message has no thinking block
C25_CallsOnlyAccumulate ==
  [][(fed' # fed /\ CallsWithoutText(fed'))
       => /\ batch' = <<>>
          /\ ACC'.tool_calls = ACC.tool_calls \o CallsOf(fed'.content.blocks)
          /\ ACC'.user_text = ACC.user_text
          /\ ACC'.user_ts = ACC.user_ts
          /\ ACC'.tool_results = ACC.tool_results
          /\ ACC'.response_text = ACC.response_text
          /\ (OnlyBlocks(fed'.content, "toolCall") => ACC'.thinking = ACC.thinking)]_vars

\* C25: a message with two different tool calls was read when tool_calls held
\* calls already
C25_Witness ==
  /\ CallsWithoutText(fed)
  /\ Len(CallsOf(fed.content.blocks)) = 2
  /\ CallsOf(fed.content.blocks)[1] # CallsOf(fed.content.blocks)[2]
  /\ Len(ACC.tool_calls) > 2
  /\ batch = <<>>

(***************************************************************************)
(* Properties of the tailer: what completes a turn                         *)
(***************************************************************************)
\* this step is main reading a file in which it finds no new line
IdlePoll ==
  /\ pc = "loop"
  /\ todo' # todo
  /\ crashes' = crashes
  /\ last'.op = "poll"
  /\ last'.lines = <<>>

\* the events other than those of the kind 'message'
BeyondMessage(ev) == SelectSeq(ev, LAMBDA e : e.typ # Lit_message)

\* C26: the records whose reading gives cognitive, worklog or activity events are
\* the assistant messages with response text; and reading a file without new
\* lines gives no event and leaves the accumulator and the offsets as they are
C26_CompletionByResponseOnly ==
  [][/\ \A i \in 1..Len(last'.out) :
          BeyondMessage(last'.out[i].ev) # <<>> => CarriesText(Recs[last'.out[i].rec])
     /\ IdlePoll
          => /\ last'.out = <<>>
             /\ ACC' = ACC
             /\ pos_map' = pos_map
             /\ rows' = rows
             /\ dashboard' = dashboard]_vars

\* C26: a file whose turn waits for its response was read again, without new
\* lines, after the user message had been shown, and the turn still waits
C26_Witness ==
  /\ LastPoll
  /\ last.lines = <<>>
  /\ last.stored0 > 0
  /\ last.stored1 = last.stored0
  /\ ACC.user_text # <<>>
  /\ ACC.response_text = <<>>
  /\ \E a \in DOMAIN dashboard.agents : dashboard.agents[a] # <<>>

(***************************************************************************)
(* Properties of the accumulator: user messages and tool results           *)
(***************************************************************************)
\* C27: reading a user message returns one event, of the kind 'message', whatever
\* the accumulator held and whatever the text, the empty text included
C27_UserMessageOneEvent ==
  UserFed => Len(batch) = 1 /\ batch[1].typ = Lit_message

\* C27: a user message without text was read
C27_Witness ==
  /\ UserFed
  /\ batch # <<>>
  /\ fed.content.str = <<>>

\* the sentences that add_tool_result puts in the place of an output
FixedSentences == {Lit_SumListen, Lit_SumStarted, Lit_SumRunning, Lit_SumError}

\* this step is the reading of a tool result
ResultRead == fed' # fed /\ fed'.role = "toolResult"

\* the output names an error or a failure, or carries a marker of a change of state
Worthy(out) ==
  \/ \E k \in {Lit_error, Lit_failed, Lit_refused, Lit_traceback, Lit_exception} :
       Contains(Lower(out), k)
  \/ \E k \in {Lit_Started, Lit_Stopped, Lit_Active, Lit_LISTEN, Lit_Connected,
                Lit_Disconnected} : Contains(out, k)

C28_KeptOnlyIfWorthy ==
  [][ResultRead
       => /\ batch' = <<>>
          /\ [ACC' EXCEPT !.tool_results = <<>>] = [ACC EXCEPT !.tool_results = <<>>]
          /\ IF Worthy(Strip(fed'.aggregated))
             THEN SubSeq(ACC'.tool_results, 1, Len(ACC.tool_results)) = ACC.tool_results
             ELSE ACC'.tool_results = ACC.tool_results]_vars

(***************************************************************************)
(* Properties of the batch of a completed turn                             *)
(***************************************************************************)
\* the line of worklog that a tool call of TurnCalls stands for, none for the
\* exec that is neither git commit or push nor systemctl restart or status
LineFor(c) ==
  IF c = Call_restart THEN <<Lit_ServiceRestarted>>
  ELSE IF c = Call_push THEN <<Lit_GitPush>>
  ELSE IF c = Call_status THEN <<Lit_ServiceStatus>>
  ELSE IF c = Call_edit THEN <<Lit_FileUpdated \o In_Path_a>>
  ELSE <<>>

\* the lines of worklog that the tool calls of the turn stand for
LinesFor(tool_calls) ==
  {LineFor(tool_calls[k]) : k \in 1..Len(tool_calls)} \ {<<>>}

\* the turn is completed: the last record read gave a batch
Completed == fed.role = "assistant" /\ batch # <<>>

\* C29: the batch of a completed turn has at most three events of the kind
\* 'worklog', no two with the same content, and each is the line of one of the
\* tool calls of the turn; calls that stand for no line give none
C29_WorklogCapped ==
  Completed
    => /\ Len(OfKind(Lit_worklog)) <= 3
       /\ \A i \in 1..Len(OfKind(Lit_worklog)) :
            \A j \in 1..Len(OfKind(Lit_worklog)) :
              i < j => OfKind(Lit_worklog)[i].summary # OfKind(Lit_worklog)[j].summary
       /\ \A i \in 1..Len(OfKind(Lit_worklog)) :
            <<OfKind(Lit_worklog)[i].summary>> \in LinesFor(ACC.tool_calls)

\* C29: a turn with tool calls that stand for four different lines was completed,
\* and its batch has three events of the kind 'worklog'
C29_Witness ==
  /\ Completed
  /\ Cardinality(LinesFor(ACC.tool_calls)) = 4
  /\ Len(OfKind(Lit_worklog)) = 3

\* the text names a scheduled run: '[cron:', 'tar task' or 'research task'
MentionsMarker(t) ==
  \E k \in {Lit_cron, Lit_tar_task, Lit_research_task} : Contains(Lower(t), k)

\* the response texts whose footer has an entry that counts
FooterHasEntry(t) == t \in {WithFooter(In_R_tar, 1), WithFooter(In_R_plain, MaxBullets)}

\* C30: when the footer of the response has an entry, the cognitive events of the
\* batch are entries of the footer, at most 12, and none comes from the derivation
\* for scheduled runs; otherwise there are at most 6 cognitive events, and there
\* is one only when the user text names a scheduled run
C30_FallbackBounded ==
  Completed
    => IF FooterHasEntry(ACC.response_text)
       THEN /\ Len(CognitiveEvents) \in 1..12
            /\ \A i \in 1..Len(CognitiveEvents) : CognitiveEvents[i].summary = In_X_min
       ELSE /\ Len(CognitiveEvents) <= 6
            /\ (CognitiveEvents # <<>> => MentionsMarker(ACC.user_text))

\* C30: the derivation for scheduled runs gave six cognitive events, for a user
\* text that names the scheduled run behind a bracketed time stamp
C30_Witness ==
  /\ Completed
  /\ ACC.response_text = In_R_tar_full
  /\ ACC.user_text = In_U_ts_tar
  /\ Len(CognitiveEvents) = 6

\* C30: a footer with 13 bullets gave 12 cognitive events
C30_WitnessFooter ==
  /\ Completed
  /\ ACC.response_text = WithFooter(In_R_plain, MaxBullets)
  /\ Len(CognitiveEvents) = 12

\* C30: the footer of the summary of a scheduled run gave the one cognitive event
C30_WitnessPrecedence ==
  /\ Completed
  /\ ACC.response_text = WithFooter(In_R_tar, 1)
  /\ ACC.user_text = In_U_tar
  /\ Len(CognitiveEvents) = 1

\* C30: a footer without an entry left the derivation for scheduled runs to work
C30_WitnessEmptyFooter ==
  /\ Completed
  /\ ACC.response_text = WithEmptyFooter(In_R_tar)
  /\ Len(CognitiveEvents) = 2

(***************************************************************************)
(* Properties of the tailer: the lines that one pass reads                 *)
(***************************************************************************)
\* this step is main reading a file
PollStep == pc = "loop" /\ todo' # todo /\ last'.op = "poll"

\* the number of lines of the file that begin at or after the byte position p
LinesFrom(content, p) == LineFeeds(Drop(content, p))

AllDrained == \A f \in DOMAIN files : OffsetOf(pos_map, f) = Len(files[f])

\* C32: the loop of main going on, every complete line of every session file is
\* read in the end, also when there are more than 30 files with lines to read
C32_EventuallyConsumed == (~AllDrained) ~> AllDrained


(***************************************************************************)
(* Properties of the tailer: the offset and the bytes of the file          *)
(***************************************************************************)
\* C33: the offset stored after a reading is the byte position just after the
\* last line read, which for a file of complete lines, all of them read, is the
\* end of the file, whatever bytes the lines hold
C33_OffsetIsBytePosition ==
  [][PollStep /\ last'.lines # <<>>
       => OffsetOf(pos_map', last'.file) = Len(files[last'.file])]_vars

\* C33: a reading begins at the start of the file or just after a line feed
C33_ReadsFromLineBoundary ==
  LastPoll /\ last.start > 0 => files[last.file][last.start] = NLByte

(***************************************************************************)
(* Properties of append_sol: the caps of the lists                         *)
(***************************************************************************)
\* new is old with one entry more at its end and, beyond cap entries, without its
\* first entries
Pushed(old, new, cap) ==
  /\ Len(new) = (IF Len(old) + 1 > cap THEN cap ELSE Len(old) + 1)
  /\ \A i \in 1..(Len(new) - 1) : new[i] = old[Len(old) + 1 - Len(new) + i]

\* new is old with the entry of the call pushed, when the call writes to the list
PushedIf(written, old, new, cap) == IF written THEN Pushed(old, new, cap) ELSE new = old

\* the list of the agent a
AgentList(d, a) == IF a \in DOMAIN d.agents THEN d.agents[a] ELSE <<>>

\* C34: the lists of the agents hold 2000 entries at most, 'thoughts' and
\* 'worklog' 800 and 'improvements' 300
C34_ListsCapped ==
  /\ \A a \in DOMAIN dashboard.agents : Len(dashboard.agents[a]) <= AgentListCap
  /\ Len(dashboard.thoughts) <= StreamCap
  /\ Len(dashboard.worklog) <= StreamCap
  /\ Len(dashboard.improvements) <= ImprovementsCap

\* C34: a call of append_sol puts its entry at the end of the lists it writes to;
\* the entries that a list loses beyond its cap are its oldest ones, and the others
\* stay in their order
C34_OldestDropped ==
  [][\E a \in DOMAIN dashboard'.agents :
       /\ dashboard'.agents[a] # <<>>
       /\ dashboard'.agents[a][Len(dashboard'.agents[a])].content = In_X_min
       /\ Pushed(AgentList(dashboard, a), dashboard'.agents[a], AgentListCap)
       /\ \A b \in DOMAIN dashboard'.agents \ {a} :
            dashboard'.agents[b] = AgentList(dashboard, b)
       /\ PushedIf(dashboard'.agents[a][Len(dashboard'.agents[a])].type
                     \in ThoughtStreamTypes,
                   dashboard.thoughts, dashboard'.thoughts, StreamCap)
       /\ PushedIf(dashboard'.agents[a][Len(dashboard'.agents[a])].type = Lit_worklog,
                   dashboard.worklog, dashboard'.worklog, StreamCap)
       /\ PushedIf(dashboard'.agents[a][Len(dashboard'.agents[a])].type
                     = AgentMark_improvement,
                   dashboard.improvements, dashboard'.improvements, ImprovementsCap)]_vars

\* C34: after any calls of append_sol the lists are within their caps (2000 for an
\* agent, 800 for thoughts and worklog, 300 for improvements), and each call has
\* dropped the oldest entries only and kept the others in their order
C34_LiveViewCaps == []C34_ListsCapped /\ C34_OldestDropped

\* C34: every list has lost its oldest entry to a call
C34_Witness ==
  /\ Len(dashboard.agents["sol"]) = AgentListCap
  /\ dashboard.agents["sol"][AgentListCap].content = In_X_min
  /\ dashboard.agents["sol"][1] # AfterRounds(800).agents["sol"][1]
  /\ Len(dashboard.worklog) = StreamCap
  /\ dashboard.worklog[StreamCap].content = In_X_min
  /\ dashboard.worklog[1].content = Numbered(2)

\* C34: the list of improvements has lost its oldest entry to a call
C34_WitnessImprovements ==
  /\ Len(dashboard.improvements) = ImprovementsCap
  /\ dashboard.improvements[ImprovementsCap].title = In_X_min
  /\ dashboard.improvements[1].title = Numbered(2)

(***************************************************************************)
(* Properties of _iter_session_files                                       *)
(***************************************************************************)
\* the entries that the arguments name: those of the directories matched and of
\* the directory given whose names end in '.jsonl', modified in the last 24 hours
Eligible ==
  {e \in UNION {SetOf(disk.dirs[d]) : d \in (SetOf(disk.glob) \cup {disk.arg})
                                                \cap DOMAIN disk.dirs} :
     e.jsonl /\ disk.now - e.mtime < RecentWindow}

\* C35: _iter_session_files returns no path twice, the files modified last first,
\* only files whose name ends in '.jsonl' and that were modified in the last 24
\* hours, 30 at most, and those are the 30 modified last; it returns the empty list
\* when no directory is there
C35_Discovery ==
  found.ran =>
    /\ \A i, j \in 1..Len(found.files) : i # j => found.files[i].path # found.files[j].path
    /\ \A i \in 1..(Len(found.files) - 1) : found.files[i].mtime >= found.files[i + 1].mtime
    /\ SetOf(found.files) \subseteq Eligible
    /\ Len(found.files) = (IF Cardinality(Eligible) > MaxSessionFiles THEN MaxSessionFiles
                           ELSE Cardinality(Eligible))
    /\ \A e \in Eligible \ SetOf(found.files) :
         \A i \in 1..Len(found.files) : e.mtime <= found.files[i].mtime
    /\ ((SetOf(disk.glob) \cup {disk.arg}) \cap DOMAIN disk.dirs = {} => found.files = <<>>)

\* C35: a directory is named twice and holds more than 30 files of the last 24
\* hours, besides older ones and names that do not end in '.jsonl'
C35_Witness ==
  /\ found.ran
  /\ Len(found.files) = MaxSessionFiles
  /\ Cardinality(Eligible) > MaxSessionFiles
  /\ disk.arg \in SetOf(disk.glob)
  /\ \E e \in SetOf(disk.dirs[disk.arg]) : e.jsonl /\ disk.now - e.mtime >= RecentWindow
  /\ \E e \in SetOf(disk.dirs[disk.arg]) : ~e.jsonl

\* C35: no directory is there, and the list is empty
C35_WitnessNoRoot ==
  /\ found.ran
  /\ disk.glob = <<>> /\ disk.arg = 3
  /\ found.files = <<>>

(***************************************************************************)
(* Properties of append_sol: the caps of the texts                         *)
(***************************************************************************)
\* C36: what append_sol hands to the store has a summary of 200 characters at most
\* and a detail text of 8000 at most, and the entries of the agents' lists have a
\* content of 500 characters at most and details of 12000 at most, however long
\* the texts of the event are
C36_TextsCapped ==
  /\ \A i \in 1..Len(batch) :
       /\ Len(StoreCall(batch[i].typ, batch[i].summary, batch[i].detail, "sol").summary)
            <= DbSummaryCap
       /\ Len(StoreCall(batch[i].typ, batch[i].summary, batch[i].detail, "sol").detail_text)
            <= DbDetailCap
  /\ \A a \in DOMAIN dashboard.agents : \A i \in 1..Len(dashboard.agents[a]) :
       /\ Len(dashboard.agents[a][i].content) <= ContentCap
       /\ Len(dashboard.agents[a][i].details) <= DetailsCap

\* C36: an event whose texts are longer than every cap has been appended
C36_Witness ==
  /\ batch # <<>>
  /\ Len(batch[1].summary) > ContentCap
  /\ Len(batch[1].detail) > DetailsCap
  /\ dashboard.agents["sol"] # <<>>
  /\ Len(dashboard.agents["sol"][Len(dashboard.agents["sol"])].content) = ContentCap
  /\ Len(dashboard.agents["sol"][Len(dashboard.agents["sol"])].details) = DetailsCap

(***************************************************************************)
(* Properties of the state file                                            *)
(***************************************************************************)
\* this step is the tailer starting, and loading its state file
LoadStep == crashes' = crashes + 1

\* C37: loading the state file that _save_tailer_state has written gives the
\* mapping that was saved; loading a state file {last_file: f, last_pos: p} gives
\* the mapping of f to p; a state file that is missing or cannot be parsed gives
\* the empty mapping
C37_StateRoundTrip ==
  [][LoadStep =>
       /\ state_file.state = "written" => pos_map' = persisted
       /\ (state_file.state = "legacy" /\ state_file.last_file # ""
              /\ state_file.last_pos # <<>>)
            => /\ DOMAIN pos_map' = {state_file.last_file}
               /\ int_str(pos_map'[state_file.last_file]) = state_file.last_pos
       /\ state_file.state \in {"missing", "empty", "scalar"} => pos_map' = NoOffsets]_vars

\* C37: the tailer has loaded a mapping of two files, one offset of several digits,
\* that it had saved, while pos_map was another
C37_Witness ==
  /\ crashes > 0
  /\ state_file.state = "written"
  /\ stop.loaded = persisted
  /\ stop.pos # persisted
  /\ DOMAIN persisted = SessionFiles
  /\ \E f \in SessionFiles : persisted[f] > 9

\* C37: the tailer has loaded a legacy state file
C37_WitnessLegacy ==
  /\ crashes > 0
  /\ state_file.state = "legacy"
  /\ state_file.last_file = "A"
  /\ pos_map = [f \in {"A"} |-> 340]

(***************************************************************************)
(* Properties of the accumulator: what a completion leaves                 *)
(***************************************************************************)
\* the events of ev of the kind 'worklog'
WorklogOf(ev) == SelectSeq(ev, LAMBDA e : e.typ = Lit_worklog)

\* C38: the reading of an assistant message with response text only leaves
\* user_text, tool_calls, tool_results and thinking as they were, although it
\* returns the batch of the turn; and when the message before was one with
\* response text too, the new batch has the worklog events of the batch before
C38_CompletionKeepsTurn ==
  [][(fed'.role = "assistant" /\ OnlyBlocks(fed'.content, "text") /\ batch' # <<>>)
       => /\ ACC'.user_text = ACC.user_text
          /\ ACC'.user_ts = ACC.user_ts
          /\ ACC'.tool_calls = ACC.tool_calls
          /\ ACC'.tool_results = ACC.tool_results
          /\ ACC'.thinking = ACC.thinking
          /\ (Completed => WorklogOf(batch') = WorklogOf(batch))]_vars

\* C38: the second answer of a turn with tool calls was read, and its batch has
\* worklog events
C38_Witness ==
  /\ fed = SecondResponse
  /\ ACC.tool_calls # <<>>
  /\ WorklogOf(batch) # <<>>

(***************************************************************************)
(* Properties of the tailer: the agent of a session                        *)
(***************************************************************************)
\* the agents that have entries in the dashboard data
AgentsWithEntries == {a \in DOMAIN dashboard.agents : dashboard.agents[a] # <<>>}

\* C39: the events of one session file all carry the same agent: when one file
\* only has lines, one agent only has entries
C39_OneAgentPerFile ==
  (\A f \in DOMAIN files : f # "A" => files[f] = <<>>)
    => Cardinality(AgentsWithEntries) <= 1

\* C39: the agent detected for a file does not change as long as the file only
\* grows
C39_AgentStable ==
  [][\A f \in DOMAIN files :
       (files[f] # <<>> /\ Take(files'[f], Len(files[f])) = files[f])
         => _detect_agent_from_session(files'[f]) = _detect_agent_from_session(files[f])]_vars

(***************************************************************************)
(* Properties of prune                                                     *)
(***************************************************************************)
\* the row of the largest id is in rs
NewestIn(rs) == \A r \in rows : (\A q \in rows : q.id <= r.id) => r \in rs

\* on the rows of the store, for every keep_last: prune deletes nothing and
\* returns no cutoff when there are keep_last rows at most; a second prune deletes
\* nothing more; and the row of the largest id stays
PruneAlgebra ==
  \A n \in 0..MaxKeep :
    /\ Cardinality(rows) <= n => prune(rows, n) = [rows |-> rows, cutoff |-> 0]
    /\ prune(prune(rows, n).rows, n).rows = prune(rows, n).rows
    /\ NewestIn(prune(rows, n).rows)

C40_WitnessBelowCap ==
  /\ prune_pc = "done"
  /\ keep_last > 0
  /\ Cardinality(rows) = keep_last
  /\ cutoff = 0
====
